---- MODULE Spec2Model ----
(***************************************************************************)
(* Model of the segment-reclaim engine of fs/f2fs/gc.c: the victim         *)
(* selector, the GC driver f2fs_gc / do_garbage_collect, the node and data *)
(* migrators and the background reclaimer thread gc_thread_func.           *)
(***************************************************************************)
EXTENDS Integers, Sequences, FiniteSets, TLC

(***************************************************************************)
(* Bounds of the model.                                                    *)
(***************************************************************************)
MainSecs == 3           \* MAIN_SECS(sbi): sections of the main area
LogBlocksPerSeg == 1    \* sbi->log_blocks_per_seg
MaxMtime == 2           \* segment mtimes range over 0 .. MaxMtime
MaxSearch == 2          \* sbi->max_victim_search ranges over 1 .. MaxSearch

(***************************************************************************)
(* Program constants.                                                      *)
(***************************************************************************)
NULL_SEGNO == -1
\* UINT_MAX, scaled to the largest integer TLC holds: the only values compared
\* with it are Cost-Benefit costs UINT_MAX - q with 0 <= q <= 10000 and the
\* cap UINT_MAX itself, whose order and differences the scaling keeps.
UINT_MAX == 2147483647
EINVAL == 22
EAGAIN == 11
NULL_ADDR == 0

BG_GC == "BG_GC"
FG_GC == "FG_GC"
GC_CB == "GC_CB"
GC_GREEDY == "GC_GREEDY"
LFS == "LFS"
SSR == "SSR"
DIRTY == "DIRTY"
COLD_DATA == "COLD_DATA"
NO_CHECK_TYPE == "NO_CHECK_TYPE"

VARIABLES
    \* ---- mount-global selector state (sbi, DIRTY_I(sbi), SIT_I(sbi)) ----
    segs_per_sec,       \* sbi->segs_per_sec
    valid_blocks,       \* get_seg_entry(segno)->valid_blocks
    ckpt_valid_blocks,  \* get_seg_entry(segno)->ckpt_valid_blocks
    mtime,              \* get_seg_entry(segno)->mtime
    min_mtime,          \* sit_i->min_mtime
    max_mtime,          \* sit_i->max_mtime
    dirty_segmap,       \* dirty_i->dirty_segmap[class], a set of segnos per class
    victim_secmap,      \* dirty_i->victim_secmap, a set of secnos
    last_victim,        \* sbi->last_victim[gc_mode]
    cur_victim_sec,     \* sbi->cur_victim_sec
    cursec,             \* the sections IS_CURSEC holds for (write cursors)
    max_victim_search,  \* sbi->max_victim_search
    gc_idle,            \* gc_th->gc_idle
    \* ---- observation of the selector ----
    sel,                \* what the last get_victim call did
    visited,            \* segnos whose cost some call computed so far
    callcfg,            \* the arguments the scan specifications call with
    calls,              \* selector calls made so far (counted up to a cap)
    \* ---- the GC driver, the reclaimer thread and the locks ----
    gc,                 \* position and locals of gc_thread_func / f2fs_gc
    gc_mutex,           \* owner of sbi->gc_mutex
    held,               \* per thread, the locks it holds in acquisition order
    active,             \* sbi->sb->s_flags & MS_ACTIVE
    cp_error,           \* f2fs_cp_error(sbi)
    free_secs,          \* free_sections(sbi)
    prefree,            \* the prefree segments
    hist,               \* observation of the current tick / f2fs_gc call
    \* ---- migration of one victim segment ----
    mcfg,               \* the victim: segment type, GC mode, summary entries
    mg,                 \* position and locals of gc_node_segment / gc_data_segment
    cur_valid_map,      \* the block addresses whose cur_valid_map bit is set
    blkaddr,            \* per summary entry, the address its owner points at
    content,            \* per block address, the content stored there
    gc_list,            \* the inodes add_gc_inode has put on gc_list
    dirty_pages,        \* per summary entry, its page-cache page is dirty
    next_addr,          \* the next free block of the log
    mhist,              \* observation of the migration round
    \* ---- inode references of one f2fs_gc call ----
    i_count,            \* per ino, the references the call holds (iget - iput)
    ilist,              \* gc_list.ilist, the inos in insertion order
    pn,                 \* position and locals of the call
    \* ---- the reclaimer task and its lifecycle ----
    gc_th,              \* sbi->gc_thread's tunables (struct f2fs_gc_kthread)
    gc_thread,          \* sbi->gc_thread: NULL or the allocated struct
    thr,                \* position and locals of gc_thread_func
    should_stop,        \* kthread_should_stop() of the reclaimer task
    ctl,                \* the caller of start_gc_thread / stop_gc_thread
    \* ---- one call of start_bidx_of_node ----
    bx                  \* its arguments, position and result

selVars == <<segs_per_sec, valid_blocks, ckpt_valid_blocks, mtime, min_mtime,
             max_mtime, dirty_segmap, victim_secmap, last_victim,
             cur_victim_sec, cursec, max_victim_search, gc_idle>>
obsVars == <<sel, visited, callcfg, calls>>
drvVars == <<gc, gc_mutex, held, active, cp_error, free_secs, prefree, hist>>
migVars == <<mcfg, mg, cur_valid_map, blkaddr, content, gc_list, dirty_pages,
             next_addr, mhist>>

pinVars == <<i_count, ilist, pn>>
thrVars == <<gc_th, gc_thread, thr, should_stop, ctl>>

bidxVars == <<bx>>

vars == <<selVars, obsVars, drvVars, migVars, pinVars, thrVars, bidxVars>>

(***************************************************************************)
(* Geometry.                                                               *)
(***************************************************************************)
BlocksPerSeg == 2 ^ LogBlocksPerSeg
MAIN_SEGS == MainSecs * segs_per_sec
Segs == 0 .. (MAIN_SEGS - 1)
Secs == 0 .. (MainSecs - 1)
GET_SECNO(segno) == segno \div segs_per_sec
SegsOf(secno) == (secno * segs_per_sec) .. (secno * segs_per_sec + segs_per_sec - 1)

Min(S) == CHOOSE x \in S : \A y \in S : x <= y

\* for (i = 0; i < sbi->segs_per_sec; i++) sum += f[start + i];
SumOver(f, start) ==
    LET acc[i \in 0 .. segs_per_sec] ==
          IF i = 0 THEN 0 ELSE acc[i - 1] + f[start + i - 1]
    IN acc[segs_per_sec]

\* find_next_bit(map, size, offset): the first set bit in [offset, size), else size
find_next_bit(map, size, offset) ==
    LET c == {s \in map : s >= offset /\ s < size}
    IN IF c = {} THEN size ELSE Min(c)

\* sec_usage_check(sbi, secno)
sec_usage_check(secno) == secno \in cursec \/ cur_victim_sec = secno

\* get_valid_blocks(sbi, segno, section)
get_valid_blocks(segno, section) ==
    IF section > 1 THEN SumOver(valid_blocks, GET_SECNO(segno) * segs_per_sec)
    ELSE valid_blocks[segno]

(***************************************************************************)
(* select_gc_type, select_policy, get_max_cost                             *)
(***************************************************************************)
select_gc_type(gc_type) ==
    LET gc_mode == IF gc_type = BG_GC THEN GC_CB ELSE GC_GREEDY
    IN IF gc_idle = 1 THEN GC_CB
       ELSE IF gc_idle = 2 THEN GC_GREEDY
       ELSE gc_mode

RawMaxSearch(nr) == IF nr > max_victim_search THEN max_victim_search ELSE nr

select_policy(gc_type, type, alloc_mode) ==
    LET gm == IF alloc_mode = SSR THEN GC_GREEDY ELSE select_gc_type(gc_type)
        map == IF alloc_mode = SSR THEN dirty_segmap[type] ELSE dirty_segmap[DIRTY]
    IN [alloc_mode |-> alloc_mode,
        gc_mode |-> gm,
        dirty_segmap |-> map,
        max_search |-> RawMaxSearch(Cardinality(map)),
        ofs_unit |-> IF alloc_mode = SSR THEN 1 ELSE segs_per_sec,
        offset |-> last_victim[gm]]

\* variant: the Greedy and SSR caps lie one above a full section / segment
get_max_cost_loose(p) ==
    IF p.alloc_mode = SSR THEN BlocksPerSeg + 1
    ELSE IF p.gc_mode = GC_GREEDY THEN BlocksPerSeg * p.ofs_unit + 1
    ELSE IF p.gc_mode = GC_CB THEN UINT_MAX
    ELSE 0

get_max_cost(p) ==
    IF p.alloc_mode = SSR THEN BlocksPerSeg
    ELSE IF p.gc_mode = GC_GREEDY THEN BlocksPerSeg * p.ofs_unit
    ELSE IF p.gc_mode = GC_CB THEN UINT_MAX
    ELSE 0

(***************************************************************************)
(* check_bg_victims: the first usable section of victim_secmap, or none.   *)
(***************************************************************************)
\* variant: every reserved section counts as usable
BgUsable_any == victim_secmap

BgUsable == {s \in victim_secmap : ~sec_usage_check(s)}

\* variant: the highest usable reserved section instead of the first
check_bg_victims_highest ==
    IF BgUsable = {} THEN NULL_SEGNO
    ELSE (CHOOSE x \in BgUsable : \A y \in BgUsable : x >= y) * segs_per_sec

check_bg_victims == IF BgUsable = {} THEN NULL_SEGNO ELSE Min(BgUsable) * segs_per_sec

(***************************************************************************)
(* get_cb_cost: returns the cost and the updated min_mtime / max_mtime.    *)
(***************************************************************************)
\* variant: age grows with mtime, so the youngest section is the cheapest
get_cb_cost_young(segno, mn, mx) ==
    LET start == GET_SECNO(segno) * segs_per_sec
        cb[mt \in Int, u \in Int] ==
          LET mn2 == IF mt < mn THEN mt ELSE mn
              mx2 == IF mt > mx THEN mt ELSE mx
              age == IF mx2 # mn2
                     THEN ((100 * (mt - mn2)) \div (mx2 - mn2)) % 256
                     ELSE 0
          IN [cost |-> UINT_MAX - ((100 * (100 - u) * age) \div (100 + u)),
              mn |-> mn2, mx |-> mx2]
    IN cb[SumOver(mtime, start) \div segs_per_sec,
          (((get_valid_blocks(segno, segs_per_sec) \div segs_per_sec) * 100)
              \div BlocksPerSeg) % 256]

get_cb_cost(segno, mn, mx) ==
    LET start == GET_SECNO(segno) * segs_per_sec
        cb[mt \in Int, u \in Int] ==
          LET mn2 == IF mt < mn THEN mt ELSE mn
              mx2 == IF mt > mx THEN mt ELSE mx
              age == IF mx2 # mn2
                     THEN (100 - ((100 * (mt - mn2)) \div (mx2 - mn2))) % 256
                     ELSE 0
          IN [cost |-> UINT_MAX - ((100 * (100 - u) * age) \div (100 + u)),
              mn |-> mn2, mx |-> mx2]
    IN cb[SumOver(mtime, start) \div segs_per_sec,
          (((get_valid_blocks(segno, segs_per_sec) \div segs_per_sec) * 100)
              \div BlocksPerSeg) % 256]

\* variant: the Greedy cost of a section is the valid count of the one
\* segment the scan stands on
get_gc_cost_segment(segno, p, mn, mx) ==
    IF p.alloc_mode = SSR
    THEN [cost |-> ckpt_valid_blocks[segno], mn |-> mn, mx |-> mx]
    ELSE IF p.gc_mode = GC_GREEDY
    THEN [cost |-> valid_blocks[segno], mn |-> mn, mx |-> mx]
    ELSE get_cb_cost(segno, mn, mx)

get_gc_cost(segno, p, mn, mx) ==
    IF p.alloc_mode = SSR
    THEN [cost |-> ckpt_valid_blocks[segno], mn |-> mn, mx |-> mx]
    ELSE IF p.gc_mode = GC_GREEDY
    THEN [cost |-> get_valid_blocks(segno, segs_per_sec), mn |-> mn, mx |-> mx]
    ELSE get_cb_cost(segno, mn, mx)

(***************************************************************************)
(* The scan loop of get_victim_by_default (while (1) { ... }).  st holds    *)
(* the locals and the fields the loop writes: p.offset, last_segment,      *)
(* sbi->last_victim[p.gc_mode] (lv), p.min_segno, p.min_cost, nsearched,   *)
(* sit_i->min_mtime / max_mtime, and for observation the segnos whose cost *)
(* was computed (in order), the number of wraps and whether the cap hit.   *)
(***************************************************************************)
\* variant: the scan never wraps round to the start of the map
scan_wraps_never(lv) == FALSE

\* the wrap test: if (sbi->last_victim[p.gc_mode])
scan_wraps(lv) == lv # 0

\* the break test: if (nsearched++ >= p.max_search)
\* variant: the break comes one candidate later
scan_capped_late(nsearched, max_search) == nsearched > max_search

scan_capped(nsearched, max_search) == nsearched >= max_search

\* the skip tests of a candidate section
\* variant: only sections in use are skipped, reserved ones are not
scan_skips_in_use_only(gc_type, secno) == sec_usage_check(secno)

\* variant: the scan skips no candidate section
scan_skips_never(gc_type, secno) == FALSE

scan_skips(gc_type, secno) ==
    \/ sec_usage_check(secno)
    \/ (gc_type = BG_GC /\ secno \in victim_secmap)

ScanStates ==
    [offset : Int, last_segment : Int, lv : Int, min_segno : Int,
     min_cost : Int, nsearched : Int, mn : Int, mx : Int,
     examined : Seq(Int), wraps : Int, capped : BOOLEAN]

CostRecs == [cost : Int, mn : Int, mx : Int]

scan_loop(p, gc_type, max_cost, st0) ==
    LET loop[st \in ScanStates] ==
          LET at[segno \in Int] ==
                LET off1 == segno + p.ofs_unit
                    off2 == IF p.ofs_unit > 1
                            THEN off1 - (segno % p.ofs_unit) ELSE off1
                    st1 == [st EXCEPT !.offset = off2]
                    costed[c \in CostRecs] ==
                      LET better == st.min_cost > c.cost
                          st2 == [st1 EXCEPT
                                    !.mn = c.mn, !.mx = c.mx,
                                    !.examined = Append(@, segno),
                                    !.min_segno = IF better THEN segno ELSE @,
                                    !.min_cost = IF better THEN c.cost ELSE @]
                      IN IF ~better /\ c.cost = max_cost
                         THEN loop[st2]
                         ELSE IF scan_capped(st.nsearched, p.max_search)
                         THEN [st2 EXCEPT !.nsearched = @ + 1, !.lv = segno,
                                          !.capped = TRUE]
                         ELSE loop[[st2 EXCEPT !.nsearched = @ + 1]]
                IN IF segno >= st.last_segment
                   THEN IF scan_wraps(st.lv)
                        THEN loop[[st EXCEPT !.last_segment = st.lv, !.lv = 0,
                                             !.offset = 0, !.wraps = @ + 1]]
                        ELSE st
                   ELSE IF scan_skips(gc_type, GET_SECNO(segno))
                   THEN loop[st1]
                   ELSE costed[get_gc_cost(segno, p, st.mn, st.mx)]
          IN at[find_next_bit(p.dirty_segmap, st.last_segment, st.offset)]
    IN loop[st0]

(***************************************************************************)
(* get_victim_by_default(sbi, result, gc_type, type, alloc_mode), computed *)
(* as a record: ret, *result (result_in when no victim), the new values of *)
(* last_victim[p.gc_mode], victim_secmap, cur_victim_sec, min/max_mtime,   *)
(* and the observations of the scan.                                       *)
(***************************************************************************)
victim_result(min_segno, ofs_unit) == (min_segno \div ofs_unit) * ofs_unit

\* got_it: the marks a found victim gets
\* variant: a BG victim is not marked in victim_secmap
victim_secmap_after_unmarked(vsm1, found, gc_type, alloc_mode, secno) == vsm1

victim_secmap_after(vsm1, found, gc_type, alloc_mode, secno) ==
    IF found /\ alloc_mode = LFS /\ gc_type # FG_GC THEN vsm1 \cup {secno} ELSE vsm1

cur_victim_sec_after(found, gc_type, alloc_mode, secno) ==
    IF found /\ alloc_mode = LFS /\ gc_type = FG_GC THEN secno ELSE cur_victim_sec

PolicyRecs ==
    [alloc_mode : {LFS, SSR}, gc_mode : {GC_CB, GC_GREEDY},
     dirty_segmap : SUBSET Int, max_search : Int, ofs_unit : Int, offset : Int]

get_victim_by_default(result_in, gc_type, type, alloc_mode) ==
    LET body[p \in PolicyRecs] ==
          LET max_cost == get_max_cost(p)
              st0 == [offset |-> p.offset, last_segment |-> MAIN_SEGS,
                      lv |-> last_victim[p.gc_mode], min_segno |-> NULL_SEGNO,
                      min_cost |-> max_cost, nsearched |-> 0,
                      mn |-> min_mtime, mx |-> max_mtime,
                      examined |-> <<>>, wraps |-> 0, capped |-> FALSE]
              bg == IF alloc_mode = LFS /\ gc_type = FG_GC
                    THEN check_bg_victims ELSE NULL_SEGNO
              fast == p.max_search # 0 /\ bg # NULL_SEGNO
              vsm1 == IF fast THEN victim_secmap \ {GET_SECNO(bg)}
                      ELSE victim_secmap
              fin[st \in ScanStates] ==
                LET found == st.min_segno # NULL_SEGNO
                    secno == GET_SECNO(st.min_segno)
                IN [ret |-> IF found THEN 1 ELSE 0,
                    result |-> IF found
                               THEN victim_result(st.min_segno, p.ofs_unit)
                               ELSE result_in,
                    gc_type |-> gc_type, alloc_mode |-> alloc_mode,
                    gc_mode |-> p.gc_mode, max_search |-> p.max_search,
                    max_cost |-> max_cost, min_cost |-> st.min_cost,
                    lv |-> st.lv, mn |-> st.mn, mx |-> st.mx,
                    vsm |-> victim_secmap_after(vsm1, found, gc_type,
                                                alloc_mode, secno),
                    cvs |-> cur_victim_sec_after(found, gc_type,
                                                 alloc_mode, secno),
                    examined |-> st.examined, nsearched |-> st.nsearched,
                    wraps |-> st.wraps,
                    capped |-> st.capped, fast |-> fast]
          IN fin[IF p.max_search = 0 THEN st0
                 ELSE IF fast THEN [st0 EXCEPT !.min_segno = bg]
                 ELSE scan_loop(p, gc_type, max_cost, st0)]
    IN body[select_policy(gc_type, type, alloc_mode)]

SeqRange(q) == {q[i] : i \in 1 .. Len(q)}

\* the state change of one get_victim call
ApplyVictim(out) ==
    /\ last_victim' = [last_victim EXCEPT ![out.gc_mode] = out.lv]
    /\ victim_secmap' = out.vsm
    /\ cur_victim_sec' = out.cvs
    /\ min_mtime' = out.mn
    /\ max_mtime' = out.mx
    /\ sel' = out
    /\ UNCHANGED <<segs_per_sec, valid_blocks, ckpt_valid_blocks, mtime,
                   dirty_segmap, cursec, max_victim_search, gc_idle>>

NoSel == [ret |-> 0, result |-> NULL_SEGNO, gc_type |-> BG_GC, alloc_mode |-> LFS,
          gc_mode |-> GC_CB, max_search |-> 0, max_cost |-> 0, min_cost |-> 0,
          lv |-> 0, mn |-> 0, mx |-> 0, vsm |-> {}, cvs |-> NULL_SEGNO,
          examined |-> <<>>, nsearched |-> 0, wraps |-> 0, capped |-> FALSE,
          fast |-> FALSE]

(***************************************************************************)
(* Initial selector states.  The code keeps nr_dirty[class] equal to the   *)
(* popcount of dirty_segmap[class], every typed map inside the DIRTY map,  *)
(* a dirty segment holds at least one valid block, and min_mtime <=        *)
(* max_mtime.                                                              *)
(***************************************************************************)
SegsPerSecChoices == {1, 2}
SegsFor(sps) == 0 .. (MainSecs * sps - 1)

\* valid counts of the scan specification: full and sparse segments mixed
ValidProfiles(sps) ==
    {[s \in SegsFor(sps) |-> IF s % 3 = 0 THEN BlocksPerSeg ELSE 1]}

MtimeProfile(sps) == [s \in SegsFor(sps) |-> (s \div sps) % (MaxMtime + 1)]

\* the same ages in the opposite order: the highest section is the oldest
RevMtimeProfile(sps) ==
    [s \in SegsFor(sps) |-> MaxMtime - ((s \div sps) % (MaxMtime + 1))]

\* every segment holds one valid block
SparseProfile(sps) == [s \in SegsFor(sps) |-> 1]

InitSelCommon ==
    /\ segs_per_sec \in SegsPerSecChoices
    /\ min_mtime = 0
    /\ max_mtime = MaxMtime
    /\ cur_victim_sec = NULL_SEGNO
    /\ sel = NoSel
    /\ visited = {}
    /\ calls = 0

(***************************************************************************)
(* State of the driver when no reclaim round is running: the reclaimer is  *)
(* in try_to_freeze / its interruptible sleep, no lock is held.            *)
(***************************************************************************)
Threads == {"gc", "alloc"}

\* the locals of f2fs_gc as the declarations initialise them
GcLocals(pc, sync) ==
    [pc |-> pc, sync |-> sync,
     gc_type |-> IF sync THEN FG_GC ELSE BG_GC,
     sec_freed |-> 0, ret |-> 0 - EINVAL, segno |-> NULL_SEGNO,
     i |-> 0, off |-> 0, nfree |-> 0, gv_esc |-> FALSE, gv_ret |-> 0]

GcIdle == GcLocals("freeze", FALSE)

HistIdle ==
    [locked |-> FALSE, unlocks |-> 0, ran |-> FALSE, selected |-> FALSE,
     cause |-> "none", fg_mig |-> FALSE, cp_since_mig |-> FALSE,
     cp_any |-> FALSE, esc |-> FALSE, esc_segno |-> NULL_SEGNO,
     esc_cp |-> FALSE, nsel |-> 0, mig_segno |-> NULL_SEGNO,
     returned |-> FALSE, retval |-> 0, rsync |-> FALSE, rfreed |-> 0,
     rtype |-> BG_GC, nogc |-> FALSE]

\* the inode numbers the summary entries of a victim name
MaxInos == 2
Inos == 1 .. MaxInos

\* the locals of an f2fs_gc call followed for its inode references, and what
\* the call met: seen collects "bad" (f2fs_iget gave a bad inode), "readerr"
\* (the data page read failed), "dup" (add_gc_inode found the ino on the
\* list), "bgstop" (the BG stop inside a segment); bad holds the inos whose
\* inode is_bad_inode is true for
PnLocals(pc, sync) ==
    [pc |-> pc, sync |-> sync,
     gc_type |-> IF sync THEN FG_GC ELSE BG_GC,
     sec_freed |-> 0, i |-> 0, phase |-> 0, off |-> 0,
     owner |-> <<>>, nfree |-> 0, bad |-> {},
     seen |-> {}, cause |-> "none", returned |-> FALSE]

InitPinIdle ==
    /\ i_count = [ino \in Inos |-> 0]
    /\ ilist = <<>>
    /\ pn = PnLocals("idle", FALSE)

\* no reclaimer task: start_gc_thread was not called yet
NoTunables ==
    [min_sleep_time |-> 0, max_sleep_time |-> 0, no_gc_sleep_time |-> 0]

\* the locals of gc_thread_func, and what is observed of it: nogc (the wait
\* was last written from no_gc_sleep_time), late_iters and late_calls (the
\* iterations and the f2fs_gc calls begun after a stop was requested)
ThrLocals(pc, wait_ms) ==
    [pc |-> pc, wait_ms |-> wait_ms, ret |-> 0,
     nogc |-> FALSE, late_iters |-> 0, late_calls |-> 0]

CtlIdle == [pc |-> "idle", starts |-> 0, stops |-> 0, last |-> "none",
            force_fg |-> FALSE]

InitThrIdle ==
    /\ gc_th = NoTunables
    /\ gc_thread = "NULL"
    /\ thr = ThrLocals("none", 0)
    /\ should_stop = FALSE
    /\ ctl = CtlIdle

\* no call of start_bidx_of_node is under way
BxIdle == [pc |-> "none", node_ofs |-> 0, addrs |-> 0, bidx |-> 0]

InitBidxIdle == bx = BxIdle

InitDrvIdle ==
    /\ gc = GcIdle
    /\ gc_mutex = "free"
    /\ held = [t \in Threads |-> <<>>]
    /\ active = TRUE
    /\ cp_error = FALSE
    /\ free_secs = 0
    /\ prefree = {}
    /\ hist = HistIdle

(***************************************************************************)
(* The victim segment a migrator works on: BlocksPerSeg blocks starting at *)
(* START_BLOCK, one summary entry per block.  Before a migrator runs the   *)
(* segment is untouched.                                                   *)
(***************************************************************************)
START_BLOCK == NULL_ADDR + 1
Offs == 0 .. BlocksPerSeg - 1
VictimAddrs == {START_BLOCK + off : off \in Offs}
Addrs == START_BLOCK .. START_BLOCK + 3 * BlocksPerSeg - 1
OrigContent(off) == off + 1
NewContent(off) == BlocksPerSeg + off + 1

\* the locals of a migrator; array is gc_data_segment's kzalloc'ed table of
\* page-cache classes, taken the move phase 3 made for each offset
MgLocals(pc) ==
    [pc |-> pc, phase |-> 0, off |-> 0, locked |-> FALSE, ret |-> 0,
     array |-> [k \in Offs |-> 0], taken |-> [k \in Offs |-> "none"]]

InitSegment(valid) ==
    /\ cur_valid_map = valid
    /\ blkaddr = [k \in Offs |-> IF START_BLOCK + k \in valid
                                 THEN START_BLOCK + k ELSE NULL_ADDR]
    /\ content = [a \in Addrs |-> IF a \in VictimAddrs
                                  THEN OrigContent(a - START_BLOCK) ELSE 0]
    /\ gc_list = {}
    /\ dirty_pages = {}
    /\ next_addr = START_BLOCK + BlocksPerSeg
    /\ mhist = [live0 |-> {k \in Offs : START_BLOCK + k \in valid},
                touched |-> {}, migrated |-> [k \in Offs |-> "no"]]

InitMigIdle ==
    /\ mcfg = [seg_type |-> "DATA", gc_type |-> BG_GC, stale |-> {},
               encrypted |-> FALSE]
    /\ mg = MgLocals("done")
    /\ InitSegment(VictimAddrs)

(***************************************************************************)
(* SpecScan: repeated calls of the selector with fixed arguments and no    *)
(* writes; f2fs_gc's reset of cur_victim_sec may happen between calls.     *)
(***************************************************************************)
InitScan ==
    /\ InitSelCommon
    /\ InitDrvIdle
    /\ InitMigIdle
    /\ InitPinIdle
    /\ InitThrIdle
    /\ InitBidxIdle
    /\ mtime = MtimeProfile(segs_per_sec)
    /\ valid_blocks \in ValidProfiles(segs_per_sec)
    /\ ckpt_valid_blocks = valid_blocks
    /\ \E D \in SUBSET SegsFor(segs_per_sec) :
          dirty_segmap = [c \in {DIRTY, COLD_DATA} |->
                            IF c = DIRTY THEN D ELSE {x \in D : x % 2 = 0}]
    /\ victim_secmap = {}
    /\ \E L \in SegsFor(segs_per_sec) :
          last_victim = [m \in {GC_CB, GC_GREEDY} |-> L]
    /\ cursec \in {{}} \cup {{c} : c \in Secs}
    /\ max_victim_search \in 1 .. MaxSearch
    /\ gc_idle \in {0, 1, 2}
    /\ callcfg \in [gc_type : {BG_GC, FG_GC}, type : {NO_CHECK_TYPE},
                    alloc_mode : {LFS}]
    \* a gc_idle override that changes nothing repeats the gc_idle = 0 runs
    /\ gc_idle = 0 \/ select_gc_type(callcfg.gc_type) #
                         (IF callcfg.gc_type = BG_GC THEN GC_CB ELSE GC_GREEDY)

\* calls after which every eligible section has been examined
CallBound == MainSecs

ScanCall ==
    /\ calls < CallBound
    /\ \E out \in {get_victim_by_default(NULL_SEGNO, callcfg.gc_type,
                                          callcfg.type, callcfg.alloc_mode)} :
          ApplyVictim(out) /\ visited' = visited \cup SeqRange(out.examined)
    /\ calls' = calls + 1
    /\ UNCHANGED <<callcfg, drvVars, migVars, pinVars, thrVars, bidxVars>>

\* f2fs_gc: if (gc_type == FG_GC) sbi->cur_victim_sec = NULL_SEGNO;
ScanClear ==
    /\ callcfg.gc_type = FG_GC
    /\ cur_victim_sec # NULL_SEGNO
    /\ cur_victim_sec' = NULL_SEGNO
    /\ UNCHANGED <<segs_per_sec, valid_blocks, ckpt_valid_blocks, mtime,
                   min_mtime, max_mtime, dirty_segmap, victim_secmap,
                   last_victim, cursec, max_victim_search, gc_idle, obsVars,
                   drvVars, migVars, pinVars, thrVars, bidxVars>>

NextScan == ScanCall \/ ScanClear

SpecScan == InitScan /\ [][NextScan]_vars

\* a section the scan of callcfg would compute the cost of, if it got there
ScanEligible(secno) ==
    /\ SegsOf(secno) \cap dirty_segmap[DIRTY] # {}
    /\ ~scan_skips(callcfg.gc_type, secno)

SecVisited(secno) == SegsOf(secno) \cap visited # {}


\* C7: cursor fairness.  With the dirty set, the valid counts and the write
\* cursors fixed, repeated selector calls in one gc_mode examine (compute the
\* cost of) every eligible dirty section (not in use, not BG-reserved): after
\* at most MAIN_SECS calls none is left unexamined, for every
\* max_victim_search >= 1 and every starting last_victim[mode].
C7_CursorFairness ==
    calls >= CallBound =>
        \A secno \in Secs : ScanEligible(secno) => SecVisited(secno)

\* a call hit the search cap, a later one wrapped, and by then every
\* eligible section has been examined
C7_Witness ==
    /\ calls >= CallBound
    /\ sel.wraps = 1
    /\ max_victim_search = 1
    /\ Cardinality(visited) >= 3
    /\ \E secno \in Secs : ScanEligible(secno)

(***************************************************************************)
(* SpecReserve: BG and FG selections (as __get_victim makes them, LFS),    *)
(* f2fs_gc's reset of cur_victim_sec after an FG section loop, and the     *)
(* allocator moving a write cursor onto a section.                         *)
(***************************************************************************)
InitReserve ==
    /\ InitSelCommon
    /\ InitDrvIdle
    /\ InitMigIdle
    /\ InitPinIdle
    /\ InitThrIdle
    /\ InitBidxIdle
    /\ mtime \in {MtimeProfile(segs_per_sec), RevMtimeProfile(segs_per_sec)}
    /\ valid_blocks = SparseProfile(segs_per_sec)
    /\ ckpt_valid_blocks = valid_blocks
    /\ dirty_segmap = [c \in {DIRTY, COLD_DATA} |-> SegsFor(segs_per_sec)]
    /\ victim_secmap = {}
    /\ last_victim = [m \in {GC_CB, GC_GREEDY} |-> 0]
    /\ cursec = {}
    /\ max_victim_search \in 1 .. MaxSearch
    /\ gc_idle = 0
    /\ callcfg = [gc_type |-> BG_GC, type |-> NO_CHECK_TYPE, alloc_mode |-> LFS]
    /\ calls = 0

RsvSelect(gc_type) ==
    /\ \E out \in {get_victim_by_default(NULL_SEGNO, gc_type, NO_CHECK_TYPE, LFS)} :
          ApplyVictim(out)
    /\ UNCHANGED <<visited, callcfg, calls, drvVars, migVars, pinVars, thrVars, bidxVars>>

RsvBG == RsvSelect(BG_GC)

RsvFG == RsvSelect(FG_GC)

\* f2fs_gc: if (gc_type == FG_GC) sbi->cur_victim_sec = NULL_SEGNO;
RsvClear ==
    /\ cur_victim_sec # NULL_SEGNO
    /\ cur_victim_sec' = NULL_SEGNO
    /\ UNCHANGED <<segs_per_sec, valid_blocks, ckpt_valid_blocks, mtime,
                   min_mtime, max_mtime, dirty_segmap, victim_secmap,
                   last_victim, cursec, max_victim_search, gc_idle, obsVars,
                   drvVars, migVars, pinVars, thrVars, bidxVars>>

\* the allocator moves its write cursor onto section secno, which clears the
\* section's reservation
RsvCursor(secno) ==
    /\ secno \notin cursec
    /\ cursec' = {secno}
    /\ victim_secmap' = victim_secmap \ {secno}
    /\ UNCHANGED <<segs_per_sec, valid_blocks, ckpt_valid_blocks, mtime,
                   min_mtime, max_mtime, dirty_segmap, last_victim,
                   cur_victim_sec, max_victim_search, gc_idle, obsVars,
                   drvVars, migVars, pinVars, thrVars, bidxVars>>

RsvCursorAny == \E secno \in Secs : RsvCursor(secno)

NextReserve == RsvBG \/ RsvFG \/ RsvClear \/ RsvCursorAny

SpecReserve ==
    InitReserve /\ [][NextReserve]_vars /\ WF_vars(RsvFG) /\ WF_vars(RsvBG)

\* the step is an FG selection that returned section secno by the fast path
FastReturned(secno) ==
    /\ sel'.fast /\ sel'.gc_type = FG_GC /\ sel'.ret = 1
    /\ GET_SECNO(sel'.result) = secno
    /\ cur_victim_sec' = secno

\* the only steps that clear a bit of victim_secmap
C6_ClearedOnlyBy ==
    \A secno \in Secs :
        (secno \in victim_secmap /\ secno \notin victim_secmap')
            => \/ FastReturned(secno)
               \/ (secno \in cursec' /\ secno \notin cursec)

\* an FG selection with a usable reserved section returns the lowest one
C6_LowestFirst ==
    (sel' # sel /\ sel'.gc_type = FG_GC /\ BgUsable # {}
        /\ dirty_segmap[DIRTY] # {} /\ max_victim_search >= 1)
        => FastReturned(Min(BgUsable))

\* C6 (as amended): once a BG selection sets a section's bit in victim_secmap
\* the bit stays set until an FG selection returns that section through the
\* fast path and clears it, or the section becomes the current write cursor;
\* no other step clears it; and every FG selection made while some reserved
\* section is usable returns the lowest-numbered usable reserved section.
C6_Reservation == [][C6_ClearedOnlyBy /\ C6_LowestFirst]_vars

\* C6 (original): the safety part, and every reserved section that stays
\* usable is eventually returned by an FG selection.
C6_Original ==
    /\ [][C6_ClearedOnlyBy]_vars
    /\ \A secno \in 0 .. (MainSecs - 1) :
          [](secno \in victim_secmap
               => <>(secno \notin victim_secmap \/ sec_usage_check(secno)))

\* two sections are reserved and an FG selection has just returned the
\* lower one by the fast path, leaving the other reserved
C6_Witness ==
    /\ sel.fast /\ sel.gc_type = FG_GC
    /\ cur_victim_sec = GET_SECNO(sel.result)
    /\ cur_victim_sec \notin victim_secmap
    /\ \E secno \in victim_secmap : secno > cur_victim_sec

(***************************************************************************)
(* SpecGc: the background reclaimer gc_thread_func, the driver f2fs_gc     *)
(* with __get_victim and do_garbage_collect, stepped at every lock         *)
(* operation and at every loop head; beside it an allocator thread that    *)
(* takes sentry_lock and then the summary page (f2fs_replace_block ->      *)
(* change_curseg), another holder of gc_mutex, unmount and the checkpoint  *)
(* error latch.                                                            *)
(***************************************************************************)
MaxFreeSecs == 2        \* free_sections(sbi) ranges over 0 .. MaxFreeSecs

\* the free-section level at or below which has_not_enough_free_secs holds
LowWatermark == 1

\* has_not_enough_free_secs(sbi, freed)
has_not_enough_free_secs(freed) == free_secs + freed <= LowWatermark

\* the migrators' test at the head of each summary entry:
\* if (gc_type == BG_GC && has_not_enough_free_secs(sbi, 0)) return 0;
\* variant: BG migration never yields
bg_stop_never(gc_type) == FALSE

bg_stop(gc_type) == gc_type = BG_GC /\ has_not_enough_free_secs(0)

\* write_checkpoint(sbi, &cpc): the prefree segments become free
free_secs_after_checkpoint ==
    LET n == free_secs + Cardinality({x \in Secs : SegsOf(x) \subseteq prefree})
    IN IF n > MaxFreeSecs THEN MaxFreeSecs ELSE n

write_checkpoint(do) ==
    IF do THEN /\ free_secs' = free_secs_after_checkpoint
               /\ prefree' = {}
    ELSE UNCHANGED <<free_secs, prefree>>

\* ---- locks ----
LockFree(l) == \A t \in Threads : l \notin SeqRange(held[t])
Acquire(t, l) == [held EXCEPT ![t] = Append(@, l)]
Release(t, l) == [held EXCEPT ![t] = SelectSeq(@, LAMBDA x : x # l)]

\* variant: the selector's two locks taken in the opposite order
victim_lock_order_reversed == <<"seglist_lock", "sentry_lock">>

\* __get_victim takes sentry_lock, then get_victim_by_default takes seglist_lock
victim_lock_order == <<"sentry_lock", "seglist_lock">>

\* variant: do_garbage_collect keeps the summary page locked
unlock_page_skipped(h) == h

\* unlock_page(sum_page)
unlock_page(h) == SelectSeq(h, LAMBDA x : x # "sum_page")

\* variant: the unlock is left out
mutex_unlock_skipped(owner) == owner

\* mutex_unlock(&sbi->gc_mutex)
mutex_unlock(owner) == "free"

\* variant: the sync override of the result is left out
f2fs_gc_result_ret(sync, sec_freed, ret) == ret

\* stop: if (sync) ret = sec_freed ? 0 : -EAGAIN; return ret;
f2fs_gc_result(sync, sec_freed, ret) ==
    IF sync THEN (IF sec_freed # 0 THEN 0 ELSE 0 - EAGAIN) ELSE ret

\* variant: the return value of f2fs_gc is ignored
no_gc_wait_never(ret) == FALSE

\* if (f2fs_gc(sbi, test_opt(sbi, FORCE_FG_GC))) wait_ms = no_gc_sleep_time
no_gc_wait(ret) == ret # 0

\* variant: a victim is selected even when one is already set
need_selection_always(segno) == TRUE

\* if (segno == NULL_SEGNO && !__get_victim(...))
need_selection(segno) == segno = NULL_SEGNO

\* variant: the exit checkpoint is written for sync calls too
exit_checkpoint_fg(sync, gc_type) == gc_type = FG_GC

\* if (!sync) { ... if (gc_type == FG_GC) write_checkpoint(sbi, &cpc); }
exit_checkpoint(sync, gc_type) == ~sync /\ gc_type = FG_GC

MigPcs == {"mig", "mig_cvm", "mig_done"}

InitDrv ==
    /\ InitSelCommon
    /\ mtime = MtimeProfile(segs_per_sec)
    /\ valid_blocks = SparseProfile(segs_per_sec)
    /\ ckpt_valid_blocks = valid_blocks
    /\ dirty_segmap = [c \in {DIRTY, COLD_DATA} |-> SegsFor(segs_per_sec)]
    /\ victim_secmap = {}
    /\ last_victim = [m \in {GC_CB, GC_GREEDY} |-> 0]
    /\ cursec = {}
    /\ max_victim_search = MaxSearch
    /\ gc_idle = 0
    /\ callcfg = [gc_type |-> BG_GC, type |-> NO_CHECK_TYPE, alloc_mode |-> LFS]
    /\ gc = GcIdle
    /\ gc_mutex = "free"
    /\ held = [t \in Threads |-> <<>>]
    /\ active = TRUE
    /\ cp_error = FALSE
    /\ free_secs \in 0 .. MaxFreeSecs
    /\ prefree = {}
    /\ hist = HistIdle

InitGc ==
    InitDrv /\ InitMigIdle /\ InitPinIdle /\ InitThrIdle /\ InitBidxIdle

\* ---- gc_thread_func ----
\* try_to_freeze / wait_event_interruptible_timeout return; a frozen
\* filesystem sends the thread straight back to sleep
ThreadWake ==
    /\ gc.pc = "freeze"
    /\ gc' = [gc EXCEPT !.pc = "trylock"]
    /\ hist' = HistIdle
    /\ UNCHANGED <<gc_mutex, held, active, cp_error, free_secs, prefree,
                   selVars, obsVars, migVars, pinVars, thrVars, bidxVars>>

\* if (kthread_should_stop()) break;
ThreadExit ==
    /\ gc.pc = "freeze"
    /\ gc' = [gc EXCEPT !.pc = "exited"]
    /\ UNCHANGED <<gc_mutex, held, active, cp_error, free_secs, prefree, hist,
                   selVars, obsVars, migVars, pinVars, thrVars, bidxVars>>

\* if (!mutex_trylock(&sbi->gc_mutex)) continue;
ThreadTrylock ==
    /\ gc.pc = "trylock"
    /\ IF gc_mutex = "free"
       THEN /\ gc_mutex' = "gc"
            /\ gc' = [gc EXCEPT !.pc = "is_idle"]
            /\ hist' = [hist EXCEPT !.locked = TRUE]
       ELSE /\ gc' = [gc EXCEPT !.pc = "freeze"]
            /\ UNCHANGED <<gc_mutex, hist>>
    /\ UNCHANGED <<held, active, cp_error, free_secs, prefree, selVars, obsVars, migVars, pinVars, thrVars,
                   bidxVars>>

\* if (!is_idle(sbi)) { ...; mutex_unlock(&sbi->gc_mutex); continue; }
\* otherwise f2fs_gc(sbi, test_opt(sbi, FORCE_FG_GC)) is entered
ThreadIdle ==
    /\ gc.pc = "is_idle"
    /\ \E idle \in BOOLEAN, sync \in BOOLEAN :
          IF ~idle
          THEN /\ ~sync
               /\ gc_mutex' = mutex_unlock(gc_mutex)
               /\ gc' = [gc EXCEPT !.pc = "freeze"]
               /\ hist' = [hist EXCEPT !.unlocks = @ + 1]
          ELSE /\ gc' = GcLocals("gc_more", sync)
               /\ hist' = [hist EXCEPT !.ran = TRUE]
               /\ UNCHANGED gc_mutex
    /\ UNCHANGED <<held, active, cp_error, free_secs, prefree, selVars, obsVars, migVars, pinVars, thrVars,
                   bidxVars>>

\* ---- f2fs_gc ----
\* gc_more: the MS_ACTIVE and cp_error checks and the BG -> FG escalation
GcMore ==
    /\ gc.pc = "gc_more"
    /\ IF ~active \/ cp_error
       THEN /\ gc' = [gc EXCEPT !.segno = NULL_SEGNO, !.pc = "stop"]
            /\ hist' = [hist EXCEPT !.esc = FALSE, !.esc_segno = NULL_SEGNO,
                                    !.esc_cp = FALSE, !.nsel = 0,
                                    !.cause = IF ~active THEN "inactive"
                                              ELSE "cp_error"]
       ELSE IF gc.gc_type = BG_GC /\ has_not_enough_free_secs(gc.sec_freed)
       THEN /\ gc' = [gc EXCEPT !.segno = NULL_SEGNO, !.gc_type = FG_GC,
                                !.gv_esc = TRUE, !.pc = "gv_lock"]
            /\ hist' = [hist EXCEPT !.esc = TRUE, !.esc_segno = NULL_SEGNO,
                                    !.esc_cp = FALSE, !.nsel = 0]
       ELSE /\ gc' = [gc EXCEPT !.segno = NULL_SEGNO, !.pc = "need_victim"]
            /\ hist' = [hist EXCEPT !.esc = FALSE, !.esc_segno = NULL_SEGNO,
                                    !.esc_cp = FALSE, !.nsel = 0]
    /\ UNCHANGED <<gc_mutex, held, active, cp_error, free_secs, prefree,
                   selVars, obsVars, migVars, pinVars, thrVars, bidxVars>>

\* __get_victim: mutex_lock(&sit_i->sentry_lock)
GvLockOuter ==
    /\ gc.pc = "gv_lock"
    /\ LockFree(victim_lock_order[1])
    /\ held' = Acquire("gc", victim_lock_order[1])
    /\ gc' = [gc EXCEPT !.pc = "gv_seglist"]
    /\ UNCHANGED <<gc_mutex, active, cp_error, free_secs, prefree, hist,
                   selVars, obsVars, migVars, pinVars, thrVars, bidxVars>>

\* get_victim_by_default: mutex_lock(&dirty_i->seglist_lock)
GvLockInner ==
    /\ gc.pc = "gv_seglist"
    /\ LockFree(victim_lock_order[2])
    /\ held' = Acquire("gc", victim_lock_order[2])
    /\ gc' = [gc EXCEPT !.pc = "gv_body"]
    /\ UNCHANGED <<gc_mutex, active, cp_error, free_secs, prefree, hist,
                   selVars, obsVars, migVars, pinVars, thrVars, bidxVars>>

\* get_victim_by_default: the selection, up to mutex_unlock(seglist_lock)
GvBody ==
    /\ gc.pc = "gv_body"
    /\ \E out \in {get_victim_by_default(gc.segno, gc.gc_type, NO_CHECK_TYPE, LFS)} :
          /\ ApplyVictim(out)
          /\ gc' = [gc EXCEPT !.segno = out.result, !.gv_ret = out.ret,
                              !.pc = "gv_unlock"]
          /\ hist' = [hist EXCEPT
                        !.nsel = @ + 1,
                        !.esc_segno = IF gc.gv_esc /\ out.ret = 1
                                      THEN out.result ELSE @]
    /\ held' = Release("gc", "seglist_lock")
    /\ UNCHANGED <<gc_mutex, active, cp_error, free_secs, prefree,
                   visited, callcfg, calls, migVars, pinVars, thrVars,
                   bidxVars>>

\* __get_victim: mutex_unlock(&sit_i->sentry_lock), and the caller's test of
\* the result
GvUnlock ==
    /\ gc.pc = "gv_unlock"
    /\ held' = Release("gc", "sentry_lock")
    /\ IF gc.gv_esc
       THEN /\ gc' = [gc EXCEPT !.pc = "esc_cp"]
            /\ UNCHANGED hist
       ELSE IF gc.gv_ret = 0
       THEN /\ gc' = [gc EXCEPT !.pc = "stop"]
            /\ hist' = [hist EXCEPT !.cause = "novictim"]
       ELSE /\ gc' = [gc EXCEPT !.ret = 0, !.i = 0, !.pc = "section"]
            /\ hist' = [hist EXCEPT !.selected = TRUE]
    /\ UNCHANGED <<gc_mutex, active, cp_error, free_secs, prefree,
                   selVars, obsVars, migVars, pinVars, thrVars, bidxVars>>

\* if (__get_victim(...) || prefree_segments(sbi)) write_checkpoint(sbi, &cpc);
EscCheckpoint ==
    /\ gc.pc = "esc_cp"
    /\ \E do \in {gc.gv_ret # 0 \/ prefree # {}} :
          /\ write_checkpoint(do)
          /\ hist' = [hist EXCEPT !.esc_cp = do,
                                  !.cp_any = @ \/ do,
                                  !.cp_since_mig = @ \/ do]
    /\ gc' = [gc EXCEPT !.gv_esc = FALSE, !.pc = "need_victim"]
    /\ UNCHANGED <<gc_mutex, held, active, cp_error, selVars, obsVars, migVars, pinVars, thrVars,
                   bidxVars>>

\* if (segno == NULL_SEGNO && !__get_victim(sbi, &segno, gc_type)) goto stop;
\* ret = 0;
NeedVictim ==
    /\ gc.pc = "need_victim"
    /\ IF need_selection(gc.segno)
       THEN /\ gc' = [gc EXCEPT !.gv_esc = FALSE, !.pc = "gv_lock"]
            /\ UNCHANGED hist
       ELSE /\ gc' = [gc EXCEPT !.ret = 0, !.i = 0, !.pc = "section"]
            /\ hist' = [hist EXCEPT !.selected = TRUE]
    /\ UNCHANGED <<gc_mutex, held, active, cp_error, free_secs, prefree,
                   selVars, obsVars, migVars, pinVars, thrVars, bidxVars>>

\* for (i = 0; i < sbi->segs_per_sec; i++)
Section ==
    /\ gc.pc = "section"
    /\ gc' = [gc EXCEPT !.pc = IF gc.i < segs_per_sec THEN "dgc_sum" ELSE "post"]
    /\ UNCHANGED <<gc_mutex, held, active, cp_error, free_secs, prefree, hist,
                   selVars, obsVars, migVars, pinVars, thrVars, bidxVars>>

\* do_garbage_collect: sum_page = get_sum_page(sbi, segno), a locked page
DgcGetSum ==
    /\ gc.pc = "dgc_sum"
    /\ LockFree("sum_page")
    /\ held' = Acquire("gc", "sum_page")
    /\ gc' = [gc EXCEPT !.pc = "dgc_unlock"]
    /\ hist' = [hist EXCEPT !.mig_segno = gc.segno + gc.i]
    /\ UNCHANGED <<gc_mutex, active, cp_error, free_secs, prefree,
                   selVars, obsVars, migVars, pinVars, thrVars, bidxVars>>

\* do_garbage_collect: unlock_page(sum_page), then the migrator is entered
DgcUnlock ==
    /\ gc.pc = "dgc_unlock"
    /\ held' = [held EXCEPT !["gc"] = unlock_page(@)]
    /\ gc' = [gc EXCEPT !.off = 0, !.pc = "mig"]
    /\ UNCHANGED <<gc_mutex, active, cp_error, free_secs, prefree, hist,
                   selVars, obsVars, migVars, pinVars, thrVars, bidxVars>>

\* the migrators' loop head: BG stops when free sections ran short;
\* otherwise check_valid_map takes sentry_lock
MigCheck ==
    /\ gc.pc = "mig"
    /\ IF bg_stop(gc.gc_type)
       THEN /\ gc' = [gc EXCEPT !.nfree = 0, !.pc = "dgc_ret"]
            /\ UNCHANGED held
       ELSE /\ LockFree("sentry_lock")
            /\ held' = Acquire("gc", "sentry_lock")
            /\ gc' = [gc EXCEPT !.pc = "mig_cvm"]
    /\ UNCHANGED <<gc_mutex, active, cp_error, free_secs, prefree, hist,
                   selVars, obsVars, migVars, pinVars, thrVars, bidxVars>>

\* check_valid_map: mutex_unlock(&sit_i->sentry_lock); off++
MigCheckDone ==
    /\ gc.pc = "mig_cvm"
    /\ held' = Release("gc", "sentry_lock")
    /\ gc' = [gc EXCEPT !.off = @ + 1,
                        !.pc = IF gc.off + 1 < BlocksPerSeg THEN "mig"
                               ELSE "mig_done"]
    /\ UNCHANGED <<gc_mutex, active, cp_error, free_secs, prefree, hist,
                   selVars, obsVars, migVars, pinVars, thrVars, bidxVars>>

\* the migrator returns: 1 only if FG_GC left no valid block in the segment
MigDone ==
    /\ gc.pc = "mig_done"
    /\ \E ok \in BOOLEAN :
          LET seg == gc.segno + gc.i
              freed == gc.gc_type = FG_GC /\ ok
          IN /\ gc.gc_type = BG_GC => ok
             \* get_valid_blocks(sbi, segno, 1) == 0 needs no migration
             /\ valid_blocks[seg] = 0 => ok
             /\ valid_blocks' = IF freed THEN [valid_blocks EXCEPT ![seg] = 0]
                                ELSE valid_blocks
             /\ dirty_segmap' = IF freed
                                THEN [c \in DOMAIN dirty_segmap |->
                                        dirty_segmap[c] \ {seg}]
                                ELSE dirty_segmap
             /\ prefree' = IF freed THEN prefree \cup {seg} ELSE prefree
             /\ gc' = [gc EXCEPT !.nfree = IF freed THEN 1 ELSE 0,
                                 !.pc = "dgc_ret"]
    /\ hist' = [hist EXCEPT !.fg_mig = @ \/ gc.gc_type = FG_GC,
                            !.cp_since_mig = FALSE]
    /\ UNCHANGED <<segs_per_sec, ckpt_valid_blocks, mtime, min_mtime, max_mtime,
                   victim_secmap, last_victim, cur_victim_sec, cursec,
                   max_victim_search, gc_idle, obsVars, migVars, pinVars, thrVars,
                   gc_mutex, held, active, cp_error, free_secs, bidxVars>>

\* the break test of the section loop
\* variant: a segment that was not freed ends the loop in BG mode too
section_break_any_mode(nfree, gc_type) == nfree = 0

section_break(nfree, gc_type) == nfree = 0 /\ gc_type = FG_GC

\* if (i == sbi->segs_per_sec && gc_type == FG_GC) sec_freed++;
\* variant: a section loop that ran to its end counts in BG mode too
sec_freed_after_any_mode(i, gc_type, sec_freed) ==
    IF i = segs_per_sec THEN sec_freed + 1 ELSE sec_freed

sec_freed_after(i, gc_type, sec_freed) ==
    IF i = segs_per_sec /\ gc_type = FG_GC THEN sec_freed + 1 ELSE sec_freed

\* do_garbage_collect returns nfree:
\* if (!do_garbage_collect(...) && gc_type == FG_GC) break;
DgcRet ==
    /\ gc.pc = "dgc_ret"
    /\ gc' = IF section_break(gc.nfree, gc.gc_type)
             THEN [gc EXCEPT !.pc = "post"]
             ELSE [gc EXCEPT !.i = @ + 1, !.pc = "section"]
    /\ UNCHANGED <<gc_mutex, held, active, cp_error, free_secs, prefree, hist,
                   selVars, obsVars, migVars, pinVars, thrVars, bidxVars>>

\* if (gc_type == FG_GC) sbi->cur_victim_sec = NULL_SEGNO;
\* variant: the section stays marked after its loop
cur_victim_sec_reset_skipped(gc_type) == cur_victim_sec

cur_victim_sec_reset(gc_type) ==
    IF gc_type = FG_GC THEN NULL_SEGNO ELSE cur_victim_sec

\* after the section loop: sec_freed++, the reset of cur_victim_sec, and for
\* !sync the loop back or the exit checkpoint
Post ==
    /\ gc.pc = "post"
    /\ \E freed \in {sec_freed_after(gc.i, gc.gc_type, gc.sec_freed)} :
          /\ cur_victim_sec' = cur_victim_sec_reset(gc.gc_type)
          /\ IF ~gc.sync /\ has_not_enough_free_secs(freed)
             THEN /\ gc' = [gc EXCEPT !.sec_freed = freed, !.pc = "gc_more"]
                  /\ UNCHANGED <<free_secs, prefree, hist>>
             ELSE /\ \E do \in {exit_checkpoint(gc.sync, gc.gc_type)} :
                        /\ write_checkpoint(do)
                        /\ hist' = [hist EXCEPT
                                      !.cp_any = @ \/ do,
                                      !.cp_since_mig = @ \/ do,
                                      !.cause = IF gc.sync THEN "sync"
                                                ELSE "enough"]
                  /\ gc' = [gc EXCEPT !.sec_freed = freed, !.pc = "stop"]
    /\ UNCHANGED <<segs_per_sec, valid_blocks, ckpt_valid_blocks, mtime,
                   min_mtime, max_mtime, dirty_segmap, victim_secmap,
                   last_victim, cursec, max_victim_search, gc_idle, obsVars,
                   migVars, pinVars, thrVars, gc_mutex, held, active, cp_error,
                   bidxVars>>

\* stop: mutex_unlock(&sbi->gc_mutex); put_gc_inode(&gc_list); return ret;
\* back in gc_thread_func a nonzero value makes no_gc_sleep_time the next wait
Stop ==
    /\ gc.pc = "stop"
    /\ gc_mutex' = mutex_unlock(gc_mutex)
    /\ hist' = [hist EXCEPT
                  !.unlocks = @ + 1, !.returned = TRUE,
                  !.retval = f2fs_gc_result(gc.sync, gc.sec_freed, gc.ret),
                  !.rsync = gc.sync, !.rfreed = gc.sec_freed,
                  !.rtype = gc.gc_type,
                  !.nogc = no_gc_wait(f2fs_gc_result(gc.sync, gc.sec_freed,
                                                     gc.ret))]
    /\ gc' = GcIdle
    /\ UNCHANGED <<held, active, cp_error, free_secs, prefree, selVars, obsVars, migVars, pinVars, thrVars,
                   bidxVars>>

\* ---- the other threads ----
\* another holder of gc_mutex (a foreground caller or a checkpoint writer)
OtherLock ==
    /\ gc_mutex = "free"
    /\ gc_mutex' = "other"
    /\ UNCHANGED <<gc, held, active, cp_error, free_secs, prefree, hist,
                   selVars, obsVars, migVars, pinVars, thrVars, bidxVars>>

OtherUnlock ==
    /\ gc_mutex = "other"
    /\ gc_mutex' = "free"
    /\ UNCHANGED <<gc, held, active, cp_error, free_secs, prefree, hist,
                   selVars, obsVars, migVars, pinVars, thrVars, bidxVars>>

\* f2fs_replace_block: mutex_lock(sentry_lock)
AllocLockSentry ==
    /\ held["alloc"] = <<>>
    /\ LockFree("sentry_lock")
    /\ held' = Acquire("alloc", "sentry_lock")
    /\ UNCHANGED <<gc, gc_mutex, active, cp_error, free_secs, prefree, hist,
                   selVars, obsVars, migVars, pinVars, thrVars, bidxVars>>

\* change_curseg: lock_page(sum_page)
AllocChangeCurseg ==
    /\ held["alloc"] = <<"sentry_lock">>
    /\ LockFree("sum_page")
    /\ held' = Acquire("alloc", "sum_page")
    /\ UNCHANGED <<gc, gc_mutex, active, cp_error, free_secs, prefree, hist,
                   selVars, obsVars, migVars, pinVars, thrVars, bidxVars>>

\* the allocator is done and releases both
AllocUnlock ==
    /\ held["alloc"] = <<"sentry_lock", "sum_page">>
    /\ held' = [held EXCEPT !["alloc"] = <<>>]
    /\ UNCHANGED <<gc, gc_mutex, active, cp_error, free_secs, prefree, hist,
                   selVars, obsVars, migVars, pinVars, thrVars, bidxVars>>

\* a writer takes a free section into use
UseFreeSection ==
    /\ free_secs > 0
    /\ free_secs' = free_secs - 1
    /\ UNCHANGED <<gc, gc_mutex, held, active, cp_error, prefree, hist,
                   selVars, obsVars, migVars, pinVars, thrVars, bidxVars>>

\* unmount clears MS_ACTIVE
Unmount ==
    /\ active
    /\ active' = FALSE
    /\ UNCHANGED <<gc, gc_mutex, held, cp_error, free_secs, prefree, hist,
                   selVars, obsVars, migVars, pinVars, thrVars, bidxVars>>

\* a checkpoint error is latched
CpError ==
    /\ ~cp_error
    /\ cp_error' = TRUE
    /\ UNCHANGED <<gc, gc_mutex, held, active, free_secs, prefree, hist,
                   selVars, obsVars, migVars, pinVars, thrVars, bidxVars>>

GcSteps ==
    \/ ThreadWake \/ ThreadExit \/ ThreadTrylock \/ ThreadIdle
    \/ GcMore \/ GvLockOuter \/ GvLockInner \/ GvBody \/ GvUnlock
    \/ EscCheckpoint \/ NeedVictim \/ Section
    \/ DgcGetSum \/ DgcUnlock \/ MigCheck \/ MigCheckDone \/ MigDone
    \/ DgcRet \/ Post \/ Stop

\* SpecGc: the reclaimer and the driver beside another holder of gc_mutex,
\* unmount, the checkpoint-error latch and a writer using up free sections
NextGc ==
    \/ GcSteps
    \/ OtherLock \/ OtherUnlock
    \/ Unmount \/ CpError \/ UseFreeSection

SpecGc == InitGc /\ [][NextGc]_vars

\* SpecLock: the reclaimer and the driver beside the allocator thread
NextLock ==
    \/ GcSteps
    \/ AllocLockSentry \/ AllocChangeCurseg \/ AllocUnlock

SpecLock == InitGc /\ [][NextLock]_vars

(***************************************************************************)
(* Properties of the driver and the reclaimer.                             *)
(***************************************************************************)
\* the reclaimer is inside f2fs_gc
InCall == gc.pc \notin {"freeze", "trylock", "is_idle", "exited"}

\* C1 (as amended): a sync call returns 0 if it freed a section and -EAGAIN
\* otherwise, whatever stopped the round, the MS_ACTIVE and cp_error checks
\* included; a non-sync call returns 0 once a victim was selected in the call
\* and -EINVAL when the round stops before any victim was selected (not
\* active, checkpoint error latched, or no victim found).
C1_Result ==
    hist.returned =>
        /\ hist.rsync =>
              hist.retval = (IF hist.rfreed > 0 THEN 0 ELSE 0 - EAGAIN)
        /\ ~hist.rsync =>
              /\ hist.retval = (IF hist.selected THEN 0 ELSE 0 - EINVAL)
              /\ ~hist.selected =>
                    hist.cause \in {"inactive", "cp_error", "novictim"}

\* C1 (original): for sync and non-sync calls alike, -EINVAL if the round
\* stops at the MS_ACTIVE / cp_error check, -EAGAIN if sync is set and no
\* section was freed, 0 on success.
C1_Original ==
    hist.returned =>
        /\ hist.cause \in {"inactive", "cp_error"} => hist.retval = 0 - EINVAL
        /\ (hist.cause \notin {"inactive", "cp_error"}
               /\ hist.rsync /\ hist.rfreed = 0) => hist.retval = 0 - EAGAIN
        /\ hist.cause = "enough" => hist.retval = 0

\* a non-sync call selected a victim, then stopped at the MS_ACTIVE check of
\* a later pass and returned 0
C1_Witness ==
    /\ hist.returned /\ ~hist.rsync /\ hist.selected
    /\ hist.cause = "inactive" /\ hist.retval = 0

\* lock a is held and lock b was acquired after it
HeldBefore(h, a, b) ==
    \E i \in 1 .. Len(h), j \in 1 .. Len(h) : i < j /\ h[i] = a /\ h[j] = b

\* C2 (as amended): no thread acquires sentry_lock while it holds
\* seglist_lock; the selector takes seglist_lock only inside sentry_lock
\* (__get_victim locks sentry_lock around the get_victim call), and
\* check_valid_map takes sentry_lock while holding neither seglist_lock, nor
\* the summary page, nor a second sentry_lock.
C2_LockOrder ==
    /\ \A t \in Threads :
          /\ ~HeldBefore(held[t], "seglist_lock", "sentry_lock")
          /\ "seglist_lock" \in SeqRange(held[t])
                => HeldBefore(held[t], "sentry_lock", "seglist_lock")
    /\ gc.pc = "mig_cvm" => held["gc"] = <<"sentry_lock">>

\* C2 (original): no thread acquires seglist_lock while it holds sentry_lock.
C2_Original ==
    \A t \in Threads : ~HeldBefore(held[t], "sentry_lock", "seglist_lock")

\* the selector runs holding sentry_lock, then seglist_lock
C2_Witness ==
    gc.pc = "gv_body" /\ held["gc"] = <<"sentry_lock", "seglist_lock">>

\* C3: the reclaimer never holds gc_mutex in try_to_freeze or its sleep; a
\* tick whose trylock succeeded has released gc_mutex exactly once when it
\* is back at the top of the loop, whichever way it went; a tick whose
\* trylock failed ran no f2fs_gc and unlocked nothing; inside f2fs_gc the
\* reclaimer holds gc_mutex and has not yet released it.
C3_MutexDiscipline ==
    /\ gc.pc \in {"freeze", "exited"} =>
          /\ gc_mutex # "gc"
          /\ hist.unlocks = (IF hist.locked THEN 1 ELSE 0)
          /\ hist.ran => hist.locked
    /\ InCall => gc_mutex = "gc" /\ hist.unlocks = 0 /\ hist.locked

\* the trylock failed against another holder and the tick was skipped
C3_Witness ==
    /\ gc.pc = "freeze" /\ gc_mutex = "other"
    /\ ~hist.locked /\ ~hist.ran /\ hist.unlocks = 0
    /\ sel # NoSel

\* the reclaimer and the allocator each wait for a lock the other holds
Deadlocked ==
    /\ held["alloc"] = <<"sentry_lock">>
    /\ "sum_page" \in SeqRange(held["gc"])
    /\ gc.pc \in {"mig", "gv_lock"}

\* C8: no migrator step runs while the GC thread holds the summary page lock
\* (check_valid_map takes sentry_lock with the page unlocked), and the GC
\* thread and an allocator that takes sentry_lock and then the summary page
\* never wait for each other.
C8_SumPageUnlocked ==
    /\ gc.pc \in MigPcs => "sum_page" \notin SeqRange(held["gc"])
    /\ ~Deadlocked

\* the allocator holds sentry_lock and the summary page while the migrator
\* is about to call check_valid_map
C8_Witness ==
    /\ gc.pc = "mig"
    /\ held["alloc"] = <<"sentry_lock", "sum_page">>

\* the step is the escalation test of gc_more finding BG mode and too few
\* free sections
EscalationTest ==
    /\ gc.pc = "gc_more" /\ gc'.pc # "gc_more"
    /\ gc.gc_type = BG_GC /\ has_not_enough_free_secs(gc.sec_freed)

\* once FG, the call stays FG
StaysFG == (InCall /\ gc.gc_type = FG_GC /\ gc'.pc # "freeze") => gc'.gc_type = FG_GC

\* the checkpoint of the escalation and the single selection
EscalatedVictim ==
    (gc.pc \in {"section", "dgc_sum", "dgc_unlock"} \cup MigPcs
        /\ hist.esc /\ hist.esc_segno # NULL_SEGNO)
        => /\ hist.esc_cp
           /\ gc.segno = hist.esc_segno
           /\ hist.nsel = 1

\* the escalation with prefree segments writes the checkpoint
EscPrefree ==
    (gc.pc = "esc_cp" /\ gc'.pc # "esc_cp" /\ (gc.gv_ret # 0 \/ prefree # {}))
        => hist'.esc_cp /\ prefree' = {}

\* C9 (as amended): in f2fs_gc(sync=false), whenever the round is in BG mode
\* at the top of the gc_more loop, the filesystem is active, no checkpoint
\* error is latched and has_not_enough_free_secs(sec_freed) holds, the mode
\* becomes FG and stays FG for the rest of the call; if an FG victim was
\* selected or prefreed segments exist a checkpoint is written before any
\* segment of the victim is migrated; and the victim selected during
\* escalation is the one migrated, no second selection being made.
C9_Escalation ==
    /\ [][(EscalationTest /\ active /\ ~cp_error) => gc'.gc_type = FG_GC]_vars
    /\ [][StaysFG]_vars
    /\ [][EscPrefree]_vars
    /\ []EscalatedVictim

\* C9 (original): the same without the conditions on MS_ACTIVE and the
\* checkpoint error.
C9_Original ==
    /\ [][EscalationTest => gc'.gc_type = FG_GC]_vars
    /\ [][StaysFG]_vars
    /\ [][EscPrefree]_vars
    /\ []EscalatedVictim

\* the victim selected by the escalation is being migrated after the
\* checkpoint of the escalation
C9_Witness ==
    /\ gc.pc = "mig_cvm" /\ hist.esc /\ hist.esc_segno # NULL_SEGNO
    /\ hist.esc_cp /\ gc.segno = hist.esc_segno /\ gc.gc_type = FG_GC
    /\ ~gc.sync

\* C10 (as amended): f2fs_gc writes a checkpoint after its last migration
\* only on the non-sync exit that reached enough free sections in FG mode;
\* the sync variant forces FG mode but writes no checkpoint at all, and a
\* call that stops because no further victim is found, or at the MS_ACTIVE
\* or cp_error check, returns without a checkpoint after its last migration.
C10_ExitCheckpoint ==
    hist.returned =>
        /\ hist.rsync => hist.rtype = FG_GC /\ ~hist.cp_any
        /\ hist.fg_mig =>
              (hist.cp_since_mig <=> (~hist.rsync /\ hist.cause = "enough"))
        /\ (~hist.rsync /\ hist.cause = "enough" /\ hist.rtype = FG_GC)
              => hist.cp_since_mig

\* C10 (original): every call that ran a foreground pass has written a
\* checkpoint after its last migration when it returns.
C10_Original == (hist.returned /\ hist.fg_mig) => hist.cp_since_mig

\* a sync call migrated in FG mode and returned without any checkpoint
C10_Witness ==
    /\ hist.returned /\ hist.rsync /\ hist.fg_mig /\ hist.rfreed > 0
    /\ ~hist.cp_any /\ hist.retval = 0

(***************************************************************************)
(* SpecMig: one migrator (gc_node_segment, gc_data_segment or              *)
(* gc_data_segment_FG) working through one victim segment while writers    *)
(* truncate and rewrite the blocks it summarises.  A step of the migrator  *)
(* ends where the code can block (get_node_page, f2fs_iget, the data page  *)
(* read, the page lock inside move_data_page / move_encrypted_block).      *)
(***************************************************************************)
NODE == "NODE"
DATA == "DATA"

check_valid_map(off) == IF START_BLOCK + off \in cur_valid_map THEN 1 ELSE 0

\* entry++, off++ of the for loop; after the last entry the next phase
\* (initial / second pass of gc_node_segment, phases 0..3 of gc_data_segment)
LastPhase == IF mcfg.seg_type = NODE THEN 1 ELSE 3
next_entry(m) ==
    IF m.off + 1 < BlocksPerSeg
    THEN [m EXCEPT !.off = @ + 1, !.pc = "loop", !.locked = FALSE]
    ELSE IF m.phase < LastPhase
    THEN [m EXCEPT !.phase = @ + 1, !.off = 0, !.pc = "loop", !.locked = FALSE]
    ELSE [m EXCEPT !.pc = "end", !.locked = FALSE]

\* is_alive: the node page could be read, the summary's version is the
\* node's, and the dnode slot still holds the block's address
is_alive(off, err) ==
    /\ ~err
    /\ off \notin mcfg.stale
    /\ blkaddr[off] = START_BLOCK + off

\* set_data_blkaddr(&dn): the dnode slot takes the new address
set_data_blkaddr_skipped(tbl, off, addr) == tbl
set_data_blkaddr(tbl, off, addr) == [tbl EXCEPT ![off] = addr]

\* get_valid_blocks(sbi, segno, 1) of the victim segment
victim_valid_blocks(map) == Cardinality(map \cap VictimAddrs)

\* the observation: the entry was migrated, its bit set or clear at that time
Migrated(off) ==
    [mhist EXCEPT !.migrated[off] =
        IF check_valid_map(off) = 1 THEN "live" ELSE "dead"]

\* allocate_data_block and the write for the entries in D: each gets the next
\* block of the log, which holds what the owner's current block held; the
\* current block's bit is cleared and the new one's set
Rank(off, D) == Cardinality({j \in D : j < off})
allocate_data_block(D) ==
    /\ cur_valid_map' = (cur_valid_map \ {blkaddr[k] : k \in D})
                            \cup {next_addr + Rank(k, D) : k \in D}
    /\ content' = [a \in Addrs |->
                     IF \E k \in D : a = next_addr + Rank(k, D)
                     THEN content[blkaddr[CHOOSE k \in D :
                                              a = next_addr + Rank(k, D)]]
                     ELSE content[a]]
    /\ next_addr' = next_addr + Cardinality(D)

InitMig ==
    /\ InitDrv
    /\ InitPinIdle
    /\ InitThrIdle
    /\ InitBidxIdle
    /\ segs_per_sec = 1
    /\ free_secs >= LowWatermark
    /\ mcfg \in [seg_type : {NODE, DATA}, gc_type : {BG_GC, FG_GC},
                 stale : {{}, {0}}, encrypted : BOOLEAN]
    /\ mcfg.seg_type = NODE => mcfg.stale = {} /\ ~mcfg.encrypted
    /\ mg = MgLocals("loop")
    /\ \E valid \in {VictimAddrs, VictimAddrs \ {START_BLOCK + BlocksPerSeg - 1}} :
          InitSegment(valid)

\* ---- gc_node_segment ----
\* the head of the loop body: the BG stop, check_valid_map, ra_node_page in
\* the initial pass, then the call of get_node_page
NodeLoop ==
    /\ mcfg.seg_type = NODE /\ mg.pc = "loop"
    /\ mg' = IF bg_stop(mcfg.gc_type)
             THEN [mg EXCEPT !.pc = "done", !.ret = 0]
             ELSE IF check_valid_map(mg.off) = 0 THEN next_entry(mg)
             ELSE IF mg.phase = 0 THEN next_entry(mg)
             ELSE [mg EXCEPT !.pc = "get_node"]
    /\ UNCHANGED <<mcfg, cur_valid_map, blkaddr, content, gc_list, dirty_pages,
                   next_addr, mhist, selVars, obsVars, drvVars, pinVars, thrVars,
                   bidxVars>>

\* get_node_page returns, with the node page locked unless IS_ERR
NodeGet ==
    /\ mcfg.seg_type = NODE /\ mg.pc = "get_node"
    /\ \E err \in BOOLEAN :
          mg' = IF err THEN next_entry(mg)
                ELSE [mg EXCEPT !.pc = "recheck", !.locked = TRUE]
    /\ UNCHANGED <<mcfg, cur_valid_map, blkaddr, content, gc_list, dirty_pages,
                   next_addr, mhist, selVars, obsVars, drvVars, pinVars, thrVars,
                   bidxVars>>

\* check_valid_map again, ni.blk_addr against start_addr + off, then
\* set_page_dirty (BG: unless PageWriteback) and f2fs_put_page
NodeRecheck ==
    /\ mcfg.seg_type = NODE /\ mg.pc = "recheck"
    /\ \E wb \in BOOLEAN :
          LET off == mg.off
              dirties == /\ check_valid_map(off) # 0
                         /\ blkaddr[off] = START_BLOCK + off
                         /\ (mcfg.gc_type = FG_GC \/ ~wb)
          IN /\ dirty_pages' = IF dirties THEN dirty_pages \cup {off}
                               ELSE dirty_pages
             /\ mhist' = IF dirties THEN Migrated(off) ELSE mhist
    /\ mg' = next_entry(mg)
    /\ UNCHANGED <<mcfg, cur_valid_map, blkaddr, content, gc_list, next_addr,
                   selVars, obsVars, drvVars, pinVars, thrVars, bidxVars>>

\* after both passes: FG_GC calls sync_node_pages, which writes every dirty
\* node page to a new block, and returns 1 only if no valid block is left
NodeEnd ==
    /\ mcfg.seg_type = NODE /\ mg.pc = "end"
    /\ IF mcfg.gc_type = FG_GC
       THEN LET D == {k \in dirty_pages : blkaddr[k] # NULL_ADDR}
            IN /\ allocate_data_block(D)
               /\ blkaddr' = [k \in Offs |-> IF k \in D
                                             THEN next_addr + Rank(k, D)
                                             ELSE blkaddr[k]]
               /\ dirty_pages' = {}
               /\ mg' = [mg EXCEPT !.pc = "done",
                            !.ret = IF victim_valid_blocks(cur_valid_map') = 0
                                    THEN 1 ELSE 0]
       ELSE /\ mg' = [mg EXCEPT !.pc = "done", !.ret = 0]
            /\ UNCHANGED <<cur_valid_map, blkaddr, content, dirty_pages,
                           next_addr>>
    /\ UNCHANGED <<mcfg, gc_list, mhist, selVars, obsVars, drvVars, pinVars, thrVars, bidxVars>>

\* ---- gc_data_segment (BG_GC) and gc_data_segment_FG (FG_GC) ----
\* the head of the loop body: the BG stop, check_valid_map, ra_node_page in
\* phase 0, then the call of is_alive
DataLoop ==
    /\ mcfg.seg_type = DATA /\ mg.pc = "loop"
    /\ mg' = IF bg_stop(mcfg.gc_type)
             THEN [mg EXCEPT !.pc = "done", !.ret = 0]
             ELSE IF check_valid_map(mg.off) = 0 THEN next_entry(mg)
             ELSE IF mg.phase = 0 THEN next_entry(mg)
             ELSE [mg EXCEPT !.pc = "is_alive"]
    /\ UNCHANGED <<mcfg, cur_valid_map, blkaddr, content, gc_list, dirty_pages,
                   next_addr, mhist, selVars, obsVars, drvVars, pinVars, thrVars,
                   bidxVars>>

\* is_alive returns (its get_node_page may have slept); phase 1 reads the
\* inode ahead, phase 2 goes on to f2fs_iget, phase 3 looks the inode up in
\* gc_list and calls move_encrypted_block / move_data_page
DataAlive ==
    /\ mcfg.seg_type = DATA /\ mg.pc = "is_alive"
    /\ \E err \in BOOLEAN :
          mg' = IF ~is_alive(mg.off, err) THEN next_entry(mg)
                ELSE IF mg.phase = 1 THEN next_entry(mg)
                ELSE IF mg.phase = 2 THEN [mg EXCEPT !.pc = "iget"]
                ELSE IF mg.off \in gc_list THEN [mg EXCEPT !.pc = "move"]
                ELSE next_entry(mg)
    /\ UNCHANGED <<mcfg, cur_valid_map, blkaddr, content, gc_list, dirty_pages,
                   next_addr, mhist, selVars, obsVars, drvVars, pinVars, thrVars,
                   bidxVars>>

\* gc_data_segment, phase 2: the class of the page get_cached_data_page
\* returned, 2 cached and clean, 1 cached and dirty, 3 not cached
classify(uptodate, dirty) ==
    IF uptodate THEN (IF ~dirty THEN 2 ELSE 1) ELSE 3

\* phase 2: f2fs_iget; an encrypted regular file goes on gc_list at once,
\* any other inode after its data page was read (IS_ERR for a hole).
\* gc_data_segment (BG_GC) records the class of the page before it tests
\* IS_ERR: PageUptodate of an error pointer reads memory that is no page, so
\* any class may be recorded then.
DataIget ==
    /\ mcfg.seg_type = DATA /\ mg.pc = "iget"
    /\ \E ierr \in BOOLEAN, rerr \in BOOLEAN,
          uptodate \in BOOLEAN, dirty \in BOOLEAN :
          /\ gc_list' = IF ierr THEN gc_list
                        ELSE IF mcfg.encrypted THEN gc_list \cup {mg.off}
                        ELSE IF rerr \/ blkaddr[mg.off] = NULL_ADDR THEN gc_list
                        ELSE gc_list \cup {mg.off}
          /\ mg' = IF ierr \/ mcfg.encrypted \/ mcfg.gc_type = FG_GC
                   THEN next_entry(mg)
                   ELSE [next_entry(mg) EXCEPT
                           !.array[mg.off] = classify(uptodate, dirty)]
    /\ UNCHANGED <<mcfg, cur_valid_map, blkaddr, content, dirty_pages,
                   next_addr, mhist, selVars, obsVars, drvVars, pinVars, thrVars,
                   bidxVars>>

\* move_encrypted_block: nothing for a hole or a failed read; else the block
\* the dnode slot points at is read, allocate_data_block gives the new
\* address, the block is written there and set_data_blkaddr stores it
move_encrypted_block(off, err) ==
    IF err \/ blkaddr[off] = NULL_ADDR
    THEN UNCHANGED <<cur_valid_map, blkaddr, content, dirty_pages, next_addr,
                     mhist>>
    ELSE /\ allocate_data_block({off})
         /\ blkaddr' = set_data_blkaddr(blkaddr, off, next_addr)
         /\ mhist' = Migrated(off)
         /\ UNCHANGED dirty_pages

\* move_data_page: get_lock_data_page by (inode, index), IS_ERR for a hole or
\* a failed read; BG_GC sets the page dirty unless it is under writeback,
\* FG_GC writes it out through do_write_data_page
move_data_page(off, gc_type, err, wb) ==
    IF err \/ blkaddr[off] = NULL_ADDR \/ (gc_type = BG_GC /\ wb)
    THEN UNCHANGED <<cur_valid_map, blkaddr, content, dirty_pages, next_addr,
                     mhist>>
    ELSE IF gc_type = BG_GC
    THEN /\ dirty_pages' = dirty_pages \cup {off}
         /\ mhist' = Migrated(off)
         /\ UNCHANGED <<cur_valid_map, blkaddr, content, next_addr>>
    ELSE /\ allocate_data_block({off})
         /\ blkaddr' = set_data_blkaddr(blkaddr, off, next_addr)
         /\ dirty_pages' = dirty_pages \ {off}
         /\ mhist' = Migrated(off)

\* change_data_page: the page comes from the cache, nothing is done unless it
\* is up to date; BG_GC sets it dirty unless it is under writeback, FG_GC
\* hands it to do_remap_data_page, which gives the block a new address
\* without reading it
change_data_page(off, gc_type, err, wb) ==
    IF err \/ blkaddr[off] = NULL_ADDR \/ (gc_type = BG_GC /\ wb)
    THEN UNCHANGED <<cur_valid_map, blkaddr, content, dirty_pages, next_addr,
                     mhist>>
    ELSE IF gc_type = BG_GC
    THEN /\ dirty_pages' = dirty_pages \cup {off}
         /\ mhist' = Migrated(off)
         /\ UNCHANGED <<cur_valid_map, blkaddr, content, next_addr>>
    ELSE /\ allocate_data_block({off})
         /\ blkaddr' = set_data_blkaddr(blkaddr, off, next_addr)
         /\ dirty_pages' = dirty_pages \ {off}
         /\ mhist' = Migrated(off)

\* gc_data_segment, phase 3, inode not encrypted:
\* if (array[off] == 1 || gc_type == BG_GC) move_data_page else change_data_page
move_strategy(class, gc_type) ==
    IF class = 1 \/ gc_type = BG_GC THEN "move_data_page"
    ELSE "change_data_page"

\* the move phase 3 makes: gc_data_segment_FG (FG_GC) has move_data_page
\* alone, gc_data_segment (every other gc_type) asks move_strategy
phase3_move(encrypted, class, gc_type) ==
    IF encrypted THEN "move_encrypted_block"
    ELSE IF gc_type = FG_GC THEN "move_data_page"
    ELSE move_strategy(class, gc_type)

\* phase 3, with the inode found in gc_list: the move by (inode, start_bidx)
DataMove ==
    /\ mcfg.seg_type = DATA /\ mg.pc = "move"
    /\ \E move \in {phase3_move(mcfg.encrypted, mg.array[mg.off],
                                 mcfg.gc_type)} :
          /\ \E err \in BOOLEAN, wb \in BOOLEAN :
                IF move = "move_encrypted_block"
                THEN move_encrypted_block(mg.off, err)
                ELSE IF move = "move_data_page"
                THEN move_data_page(mg.off, mcfg.gc_type, err, wb)
                ELSE change_data_page(mg.off, mcfg.gc_type, err, wb)
          /\ mg' = [next_entry(mg) EXCEPT !.taken[mg.off] = move]
    /\ UNCHANGED <<mcfg, gc_list, selVars, obsVars, drvVars, pinVars, thrVars, bidxVars>>

\* after phase 3: return 1 only if FG_GC left no valid block in the segment
DataEnd ==
    /\ mcfg.seg_type = DATA /\ mg.pc = "end"
    /\ mg' = [mg EXCEPT !.pc = "done",
                 !.ret = IF /\ mcfg.gc_type = FG_GC
                            /\ victim_valid_blocks(cur_valid_map) = 0
                         THEN 1 ELSE 0]
    /\ UNCHANGED <<mcfg, cur_valid_map, blkaddr, content, gc_list, dirty_pages,
                   next_addr, mhist, selVars, obsVars, drvVars, pinVars, thrVars,
                   bidxVars>>

\* ---- writers ----
\* a writer changes what an owner points at under the owner's node page
\* lock, so not while the migrator holds that node page locked
WriterMay(off) ==
    /\ mg.pc # "done"
    /\ off \notin mhist.touched
    /\ blkaddr[off] # NULL_ADDR
    /\ ~(mg.locked /\ mg.off = off)

\* truncation (or removal of the node): the block is invalidated and the
\* owner points at nothing
WriterTruncate ==
    \E off \in Offs :
       /\ WriterMay(off)
       /\ cur_valid_map' = cur_valid_map \ {blkaddr[off]}
       /\ blkaddr' = [blkaddr EXCEPT ![off] = NULL_ADDR]
       /\ mhist' = [mhist EXCEPT !.touched = @ \cup {off}]
       /\ UNCHANGED <<mcfg, mg, content, gc_list, dirty_pages, next_addr,
                      selVars, obsVars, drvVars, pinVars, thrVars, bidxVars>>

\* an overwrite reaching the disk: new content goes to the next block of the
\* log, the old block is invalidated and the owner points at the new one
WriterOverwrite ==
    \E off \in Offs :
       /\ WriterMay(off)
       /\ cur_valid_map' = (cur_valid_map \ {blkaddr[off]}) \cup {next_addr}
       /\ content' = [content EXCEPT ![next_addr] = NewContent(off)]
       /\ blkaddr' = [blkaddr EXCEPT ![off] = next_addr]
       /\ next_addr' = next_addr + 1
       /\ dirty_pages' = dirty_pages \ {off}
       /\ mhist' = [mhist EXCEPT !.touched = @ \cup {off}]
       /\ UNCHANGED <<mcfg, mg, gc_list, selVars, obsVars, drvVars, pinVars, thrVars, bidxVars>>

NextMig ==
    \/ NodeLoop \/ NodeGet \/ NodeRecheck \/ NodeEnd
    \/ DataLoop \/ DataAlive \/ DataIget \/ DataMove \/ DataEnd
    \/ WriterTruncate \/ WriterOverwrite

SpecMig == InitMig /\ [][NextMig]_vars

\* C4: a block is migrated (its node page set dirty by gc_node_segment, or
\* move_data_page / move_encrypted_block acting for its summary entry) only
\* while its cur_valid_map bit is set: a block a writer invalidated after the
\* migrator's last blocking call returned is not migrated.
C4_MigratedOnlyLive == \A off \in Offs : mhist.migrated[off] # "dead"

\* C5: at the end of a round, every block that was live at its start and that
\* no writer invalidated is pointed at by its owner at an address that is
\* valid and holds the block's content (the original address if the block was
\* skipped, a newly allocated one if it was moved), and no owner points at an
\* address whose block is not valid.
C5_Conservation ==
    mg.pc = "done" =>
       /\ \A off \in mhist.live0 \ mhist.touched :
             /\ blkaddr[off] # NULL_ADDR
             /\ blkaddr[off] \in cur_valid_map
             /\ content[blkaddr[off]] = OrigContent(off)
       /\ \A off \in Offs :
             blkaddr[off] # NULL_ADDR => blkaddr[off] \in cur_valid_map

\* a round ended in which a data block no writer touched was moved to a new
\* address, while a writer invalidated another block of the segment
C5_Witness ==
    /\ mg.pc = "done" /\ mcfg.seg_type = DATA
    /\ \E off \in mhist.live0 \ mhist.touched :
          /\ mhist.migrated[off] = "live"
          /\ blkaddr[off] \notin VictimAddrs
    /\ mhist.touched # {}

(***************************************************************************)
(* SpecSel: one call of get_victim_by_default from every selector state    *)
(* of the bounded family below, for LFS (BG and FG, every gc_idle) and     *)
(* SSR.  Sections are sparse or full, with one or all of their segments    *)
(* dirty; mtimes are far apart or within one percent of the mtime range;   *)
(* victim_secmap holds sections an earlier BG call could reserve.          *)
(***************************************************************************)
\* an mtime beyond a hundred times the others: 100 * (mtime - min_mtime)
\* divided by the range is 0 for each of the small ones
FarMtime == 100 * (MaxMtime + 1)

\* sections 0 and 1 written within one percent of the range, in either order
CloseMtimeProfile(sps) ==
    [s \in SegsFor(sps) |-> IF s \div sps >= 2 THEN FarMtime ELSE s \div sps]
CloseRevMtimeProfile(sps) ==
    [s \in SegsFor(sps) |-> IF s \div sps >= 2 THEN FarMtime
                            ELSE 1 - (s \div sps)]

\* every section written at the same time
FlatMtimeProfile(sps) == [s \in SegsFor(sps) |-> 0]

MaxOf(f) == CHOOSE x \in {f[s] : s \in DOMAIN f} :
               \A s \in DOMAIN f : f[s] <= x

\* a segment is empty (no valid block), sparse (one valid block, dirty),
\* full (every block valid) or full and still in the dirty map, the case
\* the cap of the Greedy cost is there for; a two-segment section is one of
\* six pairs of these
SectionPatterns(sps) ==
    IF sps = 1 THEN {<<"empty">>, <<"sparse">>, <<"full">>, <<"fulldirty">>}
    ELSE {<<"sparse", "sparse">>, <<"fulldirty", "fulldirty">>,
          <<"full", "sparse">>, <<"sparse", "empty">>, <<"full", "empty">>,
          <<"empty", "empty">>}

KindProfiles(sps) ==
    {[s \in SegsFor(sps) |-> pat[s \div sps][(s % sps) + 1]] :
        pat \in [Secs -> SectionPatterns(sps)]}

KindValid(kind) ==
    IF kind = "empty" THEN 0 ELSE IF kind = "sparse" THEN 1 ELSE BlocksPerSeg

KindDirty(kind) == kind \in {"sparse", "fulldirty"}

\* a section a BG call can have reserved: it was below the cap then, and the
\* bit is cleared when the last valid block of the section goes
Reservable(vb, sps, secno) ==
    LET sum == SumOver(vb, secno * sps)
    IN 0 < sum /\ sum < BlocksPerSeg * sps

InitSel ==
    /\ InitDrvIdle
    /\ InitMigIdle
    /\ InitPinIdle
    /\ InitThrIdle
    /\ InitBidxIdle
    /\ segs_per_sec \in SegsPerSecChoices
    /\ sel = NoSel
    /\ visited = {}
    /\ calls = 0
    /\ callcfg \in [gc_type : {BG_GC, FG_GC}, type : {COLD_DATA},
                    alloc_mode : {LFS, SSR}]
    /\ gc_idle \in {0, 1, 2}
    /\ callcfg.alloc_mode = SSR => gc_idle = 0
    \* a gc_idle override that changes nothing repeats the gc_idle = 0 calls
    /\ gc_idle = 0 \/ select_gc_type(callcfg.gc_type) #
                         (IF callcfg.gc_type = BG_GC THEN GC_CB ELSE GC_GREEDY)
    /\ \E kinds \in KindProfiles(segs_per_sec) :
          /\ valid_blocks = [s \in SegsFor(segs_per_sec) |->
                                KindValid(kinds[s])]
          /\ LET D == {s \in SegsFor(segs_per_sec) : KindDirty(kinds[s])}
             IN dirty_segmap = [c \in {DIRTY, COLD_DATA} |->
                                  IF c = DIRTY THEN D
                                  ELSE {x \in D : x % 2 = 0}]
    \* the checkpointed count of a segment is its current count, or the
    \* segment was full at the checkpoint and lost blocks since
    /\ ckpt_valid_blocks \in
          {valid_blocks} \cup
          {[s \in SegsFor(segs_per_sec) |-> BlocksPerSeg] :
              x \in {a \in {callcfg.alloc_mode} : a = SSR}}
    /\ mtime \in
          {MtimeProfile(segs_per_sec)} \cup
          {prof : prof \in {p \in {RevMtimeProfile(segs_per_sec),
                                   CloseMtimeProfile(segs_per_sec),
                                   CloseRevMtimeProfile(segs_per_sec),
                                   FlatMtimeProfile(segs_per_sec)} :
                              /\ callcfg.alloc_mode = LFS
                              /\ select_gc_type(callcfg.gc_type) = GC_CB}}
    /\ min_mtime = 0
    /\ max_mtime = MaxOf(mtime)
    /\ cursec \in {{}, {1}}
    /\ victim_secmap \in
          {V \in SUBSET Secs :
              /\ \A secno \in V : Reservable(valid_blocks, segs_per_sec, secno)
              /\ callcfg.alloc_mode = SSR => Cardinality(V) <= 1}
    /\ \E L \in SegsFor(segs_per_sec) :
          last_victim = [m \in {GC_CB, GC_GREEDY} |-> L]
    \* f2fs_gc selects with cur_victim_sec reset; the allocator's SSR call
    \* can come while an FG round holds a section
    /\ cur_victim_sec \in {NULL_SEGNO} \cup
                          {0 : x \in {a \in {callcfg.alloc_mode} : a = SSR}}
    /\ max_victim_search \in {1, MaxSearch}

\* get_victim(sbi, &segno, gc_type, type, alloc_mode)
SelCall ==
    /\ calls = 0
    /\ \E out \in {get_victim_by_default(NULL_SEGNO, callcfg.gc_type,
                                          callcfg.type, callcfg.alloc_mode)} :
          ApplyVictim(out) /\ visited' = SeqRange(out.examined)
    /\ calls' = 1
    /\ UNCHANGED <<callcfg, drvVars, migVars, pinVars, thrVars, bidxVars>>

NextSel == SelCall

SpecSel == InitSel /\ [][NextSel]_vars

\* ---- what a call had to choose from (evaluated in the state before it) ----
SelPolicy == select_policy(callcfg.gc_type, callcfg.type, callcfg.alloc_mode)

\* a section of the scan bitmap the scan does not skip
SelCandidate(secno) ==
    /\ SegsOf(secno) \cap SelPolicy.dirty_segmap # {}
    /\ ~scan_skips(callcfg.gc_type, secno)

\* the valid blocks of a section: the LFS Greedy cost
SecValid(secno) == SumOver(valid_blocks, secno * segs_per_sec)

\* the place in the scan order where the cost of secno was first computed
FirstMet(examined, secno) ==
    Min({i \in 1 .. Len(examined) : GET_SECNO(examined[i]) = secno})

\* the call scanned in LFS mode and did not stop at the search cap
LfsScan(out) ==
    /\ out.alloc_mode = LFS
    /\ ~out.fast
    /\ ~out.capped

SecMtime(secno) == SumOver(mtime, secno * segs_per_sec) \div segs_per_sec
SecUtil(secno) ==
    (((SecValid(secno) \div segs_per_sec) * 100) \div BlocksPerSeg) % 256
CbCost(secno) == get_cb_cost(secno * segs_per_sec, min_mtime, max_mtime).cost

\* a candidate of a Cost-Benefit scan with its mtime inside the range and
\* its cost below the cap
CbEligible(secno) ==
    /\ SelCandidate(secno)
    /\ min_mtime <= SecMtime(secno) /\ SecMtime(secno) <= max_mtime
    /\ CbCost(secno) < UINT_MAX

CbScan(out) == LfsScan(out) /\ out.gc_mode = GC_CB /\ out.ret = 1

\* C12 as stated: of two eligible candidates with the same utilization and
\* different mtime, the Cost-Benefit selector returns the older one whatever
\* their order in the scan (the younger one is never returned).
C12_Original ==
    [][(SelCall /\ CbScan(sel')) =>
          \A a \in Secs, b \in Secs :
             (/\ CbEligible(a) /\ CbEligible(b)
              /\ SecUtil(a) = SecUtil(b)
              /\ SecMtime(a) < SecMtime(b)) =>
                GET_SECNO(sel'.result) # b]_vars

\* C12: the Cost-Benefit cost does not grow as a section gets older and does
\* not shrink as its utilization grows; of two eligible candidates with the
\* same utilization the younger one is returned only when the integer
\* divisions give both the same cost and it is met first in the scan.
C12_CbOrder ==
    [][(SelCall /\ sel'.alloc_mode = LFS /\ sel'.gc_mode = GC_CB) =>
          /\ LET cost == [s \in Secs |-> CbCost(s)]
                 mt == [s \in Secs |-> SecMtime(s)]
                 u == [s \in Secs |-> SecUtil(s)]
             IN \A a \in Secs, b \in Secs :
                   (mt[a] <= mt[b] /\ u[a] <= u[b]) => cost[a] <= cost[b]
          /\ CbScan(sel') =>
                LET r == GET_SECNO(sel'.result)
                IN \A a \in Secs :
                      (/\ CbEligible(a) /\ CbEligible(r)
                       /\ SecUtil(a) = SecUtil(r)
                       /\ SecMtime(a) < SecMtime(r)) =>
                         /\ CbCost(a) = CbCost(r)
                         /\ FirstMet(sel'.examined, r)
                               < FirstMet(sel'.examined, a)]_vars

\* a Cost-Benefit scan met a younger section first and returned an older one
\* of the same utilization; the mtime range was left as it was
C12_Witness ==
    /\ calls = 1 /\ CbScan(sel)
    /\ sel.mn = 0 /\ sel.mx = MaxOf(mtime)
    /\ \E b \in Secs :
          LET r == GET_SECNO(sel.result)
          IN /\ b # r
             /\ SegsOf(b) \cap SeqRange(sel.examined) # {}
             /\ SecUtil(b) = SecUtil(r)
             /\ SecMtime(r) < SecMtime(b)
             /\ FirstMet(sel.examined, b) < FirstMet(sel.examined, r)
             /\ CbCost(r) < CbCost(b) /\ CbCost(b) < UINT_MAX

\* ---- the cost of a segment under the policy of the call, and its cap ----
PolicyCost(segno) == get_gc_cost(segno, SelPolicy, min_mtime, max_mtime).cost

\* Greedy: B * unit, Cost-Benefit: UINT_MAX, SSR: B
PolicyCap ==
    IF callcfg.alloc_mode = SSR THEN BlocksPerSeg
    ELSE IF SelPolicy.gc_mode = GC_GREEDY THEN BlocksPerSeg * segs_per_sec
    ELSE UINT_MAX

\* the segments of the scan bitmap whose section the scan does not skip
ScanSegs ==
    {s \in SelPolicy.dirty_segmap : ~scan_skips(callcfg.gc_type, GET_SECNO(s))}

\* C13 as stated: the selector never returns a segment whose cost under the
\* policy of the call equals the policy's cap.
C13_Original ==
    [][(SelCall /\ sel'.ret = 1) => PolicyCost(sel'.result) # PolicyCap]_vars

\* C13: a scan never returns a segment whose cost equals the cap of the
\* policy (Greedy: B * unit, Cost-Benefit: UINT_MAX, SSR: B), and a scan that
\* meets only segments at the cap returns none; the FG fast path returns a
\* reserved section without computing its cost.
C13_MaxCostRejection ==
    [][(SelCall /\ ~sel'.fast) =>
          /\ sel'.ret = 1 =>
                /\ sel'.result \in {(s \div SelPolicy.ofs_unit)
                                       * SelPolicy.ofs_unit : s \in ScanSegs}
                /\ PolicyCost(sel'.result) < PolicyCap
          /\ (\A s \in ScanSegs : PolicyCost(s) = PolicyCap) => sel'.ret = 0]_vars

\* a Greedy scan computed the cost of a fully valid section, the only one it
\* met, and returned none
C13_Witness ==
    /\ calls = 1 /\ sel.alloc_mode = LFS /\ sel.gc_mode = GC_GREEDY
    /\ ~sel.fast
    /\ Len(sel.examined) = 1
    /\ SecValid(GET_SECNO(sel.examined[1])) = BlocksPerSeg * segs_per_sec
    /\ sel.ret = 0 /\ sel.result = NULL_SEGNO
    /\ sel.min_cost = sel.max_cost

\* ---- the order of a scan that starts at last_victim[mode] = L ----
SelL == last_victim[SelPolicy.gc_mode]

\* the set bits find_next_bit stops at in [lo, hi): per section (per segment
\* in SSR) the first set bit of the range, the offset then moves past it
MetIn(lo, hi) ==
    {s \in SelPolicy.dirty_segmap :
        /\ lo <= s /\ s < hi
        /\ \A t \in SelPolicy.dirty_segmap :
              (/\ lo <= t /\ t < hi
               /\ t \div SelPolicy.ofs_unit = s \div SelPolicy.ofs_unit) =>
                 s <= t}

\* of those, the ones whose cost is computed: section not in use, and not
\* reserved when gc_type is BG
CostedIn(lo, hi) ==
    {s \in MetIn(lo, hi) :
        /\ GET_SECNO(s) \notin cursec
        /\ GET_SECNO(s) # cur_victim_sec
        /\ ~(callcfg.gc_type = BG_GC /\ GET_SECNO(s) \in victim_secmap)}

Ascending(S) ==
    [i \in 1 .. Cardinality(S) |->
        CHOOSE x \in S : Cardinality({y \in S : y < x}) = i - 1]

\* the first place of a sequence of segnos with the least cost below the
\* cap, 0 if there is none
BestAt(q) ==
    LET ok == {i \in 1 .. Len(q) : PolicyCost(q[i]) < PolicyCap}
    IN IF ok = {} THEN 0
       ELSE Min({i \in ok : \A j \in ok : PolicyCost(q[i]) <= PolicyCost(q[j])})

\* the call went into the scan loop: some segment is dirty and the FG fast
\* path found no reserved section
Scanned(out) == out.max_search # 0 /\ ~out.fast

\* C14 as stated: from last_victim[mode] = L > 0, a call that does not hit
\* the search cap wraps exactly once and leaves last_victim[mode] = 0.
C14_Original ==
    [][(SelCall /\ SelL > 0 /\ ~sel'.capped) =>
          /\ sel'.wraps = 1
          /\ last_victim'[sel'.gc_mode] = 0]_vars

\* C14: wrap-around scan.  No call wraps more than once.  From
\* last_victim[mode] = L > 0, a call that goes into the scan loop and does
\* not hit the search cap computes the costs for the set bits of [L, end) in
\* increasing order, wraps exactly once, computes those for [0, L), returns
\* the lowest-cost candidate of both ranges (the first met among equals, none
\* if all are at the cap) and leaves last_victim[mode] = 0.
C14_WrapAround ==
    [][SelCall =>
          /\ sel'.wraps <= 1
          /\ (Scanned(sel') /\ SelL > 0 /\ ~sel'.capped) =>
                LET q == Ascending(CostedIn(SelL, MAIN_SEGS))
                            \o Ascending(CostedIn(0, SelL))
                    best == BestAt(q)
                IN /\ sel'.wraps = 1
                   /\ sel'.examined = q
                   /\ last_victim'[sel'.gc_mode] = 0
                   /\ sel'.ret = (IF best = 0 THEN 0 ELSE 1)
                   /\ best # 0 =>
                         sel'.result = (q[best] \div SelPolicy.ofs_unit)
                                          * SelPolicy.ofs_unit]_vars

\* a scan ran to the end of the map, wrapped, and returned a cheaper segment
\* it met after the wrap
C14_Witness ==
    /\ calls = 1 /\ Scanned(sel) /\ ~sel.capped
    /\ sel.wraps = 1 /\ sel.lv = 0
    /\ Len(sel.examined) >= 2
    /\ \E i \in 1 .. Len(sel.examined) - 1 :
          /\ sel.examined[i] > sel.examined[i + 1]
          /\ GET_SECNO(sel.examined[i + 1]) = GET_SECNO(sel.result)
    /\ sel.ret = 1
    /\ last_victim[sel.gc_mode] = 0

\* C15: selector side effects.  A call that returns a segment in LFS mode
\* leaves cur_victim_sec at the segment's section when gc_type is FG, and the
\* section's bit set in victim_secmap when gc_type is BG; a call in SSR mode,
\* and any call that returns none, changes neither cur_victim_sec nor
\* victim_secmap.
C15_SideEffects ==
    [][SelCall =>
          /\ (sel'.ret = 1 /\ callcfg.alloc_mode = LFS /\ callcfg.gc_type = FG_GC)
                => cur_victim_sec' = GET_SECNO(sel'.result)
          /\ (sel'.ret = 1 /\ callcfg.alloc_mode = LFS /\ callcfg.gc_type = BG_GC)
                => GET_SECNO(sel'.result) \in victim_secmap'
          /\ (callcfg.alloc_mode = SSR \/ sel'.ret = 0)
                => /\ cur_victim_sec' = cur_victim_sec
                   /\ victim_secmap' = victim_secmap]_vars

\* a BG call in LFS mode scanned past a reserved section and returned
\* another, which is now reserved as well
C15_Witness ==
    /\ calls = 1 /\ sel.ret = 1
    /\ callcfg.alloc_mode = LFS /\ callcfg.gc_type = BG_GC
    /\ GET_SECNO(sel.result) \in victim_secmap
    /\ Cardinality(victim_secmap) >= 2
    /\ cur_victim_sec = NULL_SEGNO
    /\ Len(sel.examined) >= 1

(***************************************************************************)
(* The FG fast path over the victim-reserved map.                          *)
(***************************************************************************)
\* the reserved sections an FG call may take: not the section of a current
\* segment, not the section a round is holding
FgUsable == {secno \in victim_secmap : ~sec_usage_check(secno)}

LowestFgUsable == CHOOSE secno \in FgUsable : \A t \in FgUsable : secno <= t

FgLfsCall == SelCall /\ callcfg.alloc_mode = LFS /\ callcfg.gc_type = FG_GC

\* C16 as stated: in LFS mode with gc_type FG, whenever victim_secmap holds a
\* usable section the call returns the first segment of the lowest such
\* section, examines no dirty segment and clears the section's bit, whatever
\* the dirty set is.
C16_Original ==
    [][(FgLfsCall /\ FgUsable # {}) =>
          /\ sel'.ret = 1
          /\ sel'.result = LowestFgUsable * segs_per_sec
          /\ sel'.examined = <<>>
          /\ victim_secmap' = victim_secmap \ {LowestFgUsable}]_vars

\* C16: in LFS mode with gc_type FG and a search budget that is not zero
\* (a dirty segment exists and max_victim_search is not 0), whenever
\* victim_secmap holds a usable section the call returns the first segment
\* of the lowest such section, examines no dirty segment, clears that
\* section's bit and no other, and leaves last_victim alone; with a search
\* budget of zero the call returns none before it looks at victim_secmap,
\* and victim_secmap keeps every bit.
C16_FgFastPath ==
    [][(FgLfsCall /\ FgUsable # {}) =>
          IF SelPolicy.max_search # 0
          THEN /\ sel'.ret = 1
               /\ sel'.fast
               /\ sel'.result = LowestFgUsable * segs_per_sec
               /\ sel'.examined = <<>>
               /\ victim_secmap' = victim_secmap \ {LowestFgUsable}
               /\ last_victim' = last_victim
          ELSE /\ sel'.ret = 0
               /\ ~sel'.fast
               /\ sel'.examined = <<>>
               /\ victim_secmap' = victim_secmap]_vars

\* an FG call took a reserved section above a reserved section that a
\* current segment occupies: the taken bit is cleared, the other stays
C16_Witness ==
    /\ calls = 1
    /\ sel.fast
    /\ sel.ret = 1
    /\ sel.examined = <<>>
    /\ dirty_segmap[DIRTY] # {}
    /\ cur_victim_sec = GET_SECNO(sel.result)
    /\ GET_SECNO(sel.result) \notin victim_secmap
    /\ \E secno \in victim_secmap : secno \in cursec /\ secno < GET_SECNO(sel.result)

(***************************************************************************)
(* SpecPin: the inode references of f2fs_gc calls.  A call selects victims *)
(* and walks their segments; the data migrators take a reference with      *)
(* f2fs_iget in phase 2 and hand it to gc_list or drop it; stop: runs       *)
(* put_gc_inode.  Unmount, the checkpoint-error latch and a writer using    *)
(* up free sections run beside the call.                                    *)
(***************************************************************************)
\* the references one ino can pile up in the model
MaxPins == 2

f2fs_iget(cnt, ino) == [cnt EXCEPT ![ino] = @ + 1]

iput(cnt, ino) == [cnt EXCEPT ![ino] = @ - 1]

find_gc_inode(list, ino) == ino \in SeqRange(list)

\* add_gc_inode: an inode already on the list gives its reference back
add_gc_inode(list, cnt, ino) ==
    IF find_gc_inode(list, ino)
    THEN [ilist |-> list, i_count |-> iput(cnt, ino)]
    ELSE [ilist |-> Append(list, ino), i_count |-> cnt]

\* put_gc_inode: one iput per list entry, the list is emptied
put_gc_inode(list, cnt) ==
    [ilist |-> <<>>,
     i_count |-> [ino \in Inos |->
                    cnt[ino] - Cardinality({k \in 1 .. Len(list) : list[k] = ino})]]

\* what phase 2 of a data migrator can meet at one summary entry: the entry
\* is skipped (block invalid or not alive), f2fs_iget fails, f2fs_iget gives
\* a bad inode, the inode is an encrypted regular file, the data page read
\* fails, the data page is read
IgetOutcomes == {"skip", "err", "bad", "encrypted", "readerr", "read"}

\* phase 2 of gc_data_segment / gc_data_segment_FG for one entry
phase2(list, cnt, ino, outcome) ==
    IF outcome \in {"skip", "err"} THEN [ilist |-> list, i_count |-> cnt]
    ELSE IF outcome = "bad" THEN [ilist |-> list, i_count |-> f2fs_iget(cnt, ino)]
    ELSE IF outcome = "readerr"
    THEN [ilist |-> list, i_count |-> iput(f2fs_iget(cnt, ino), ino)]
    ELSE add_gc_inode(list, f2fs_iget(cnt, ino), ino)

InitPin ==
    /\ InitDrv
    /\ InitMigIdle
    /\ InitThrIdle
    /\ InitBidxIdle
    /\ InitPinIdle

\* f2fs_gc is entered by a caller that holds gc_mutex; gc_list starts empty
PinCall ==
    /\ pn.pc = "idle"
    /\ gc_mutex = "free"
    /\ gc_mutex' = "gc"
    /\ \E sync \in BOOLEAN, bad \in SUBSET Inos :
          pn' = [PnLocals("gc_more", sync) EXCEPT !.bad = bad]
    /\ i_count' = [ino \in Inos |-> 0]
    /\ ilist' = <<>>
    /\ UNCHANGED <<gc, held, active, cp_error, free_secs, prefree, hist,
                   selVars, obsVars, migVars, thrVars, bidxVars>>

\* gc_more: the MS_ACTIVE and cp_error checks, the BG -> FG escalation (no
\* segment is prefree here, so its checkpoint frees nothing) and the
\* selection of a victim
PinGcMore ==
    /\ pn.pc = "gc_more"
    /\ IF ~active THEN pn' = [pn EXCEPT !.pc = "stop", !.cause = "inactive"]
       ELSE IF cp_error THEN pn' = [pn EXCEPT !.pc = "stop", !.cause = "cp_error"]
       ELSE \E found \in BOOLEAN :
              pn' = [pn EXCEPT
                       !.gc_type = IF /\ pn.gc_type = BG_GC
                                      /\ has_not_enough_free_secs(pn.sec_freed)
                                   THEN FG_GC ELSE @,
                       !.pc = IF found THEN "segment" ELSE "stop",
                       !.cause = IF found THEN @ ELSE "novictim",
                       !.i = 0]
    /\ UNCHANGED <<i_count, ilist, drvVars, selVars, obsVars, migVars, thrVars, bidxVars>>

\* the section loop of f2fs_gc and the head of do_garbage_collect: a node
\* segment takes no inode reference, a data segment is walked entry by entry
PinSegment ==
    /\ pn.pc = "segment"
    /\ IF pn.i = segs_per_sec THEN pn' = [pn EXCEPT !.pc = "post"]
       ELSE \/ \E nfree \in {0} \cup {1 : x \in {t \in {pn.gc_type} : t = FG_GC}} :
                 pn' = [pn EXCEPT !.pc = "seg_ret", !.nfree = nfree]
            \/ \E owner \in [Offs -> Inos] :
                 pn' = [pn EXCEPT !.pc = "entry", !.phase = 0, !.off = 0,
                                  !.owner = owner]
    /\ UNCHANGED <<i_count, ilist, drvVars, selVars, obsVars, migVars, thrVars, bidxVars>>

\* the entry after (phase, off), or the end of the four passes
PinNext(m) ==
    IF m.off + 1 < BlocksPerSeg THEN [m EXCEPT !.off = @ + 1]
    ELSE IF m.phase < 3 THEN [m EXCEPT !.phase = @ + 1, !.off = 0]
    ELSE [m EXCEPT !.pc = "seg_end"]

\* one pass of the loop body of gc_data_segment / gc_data_segment_FG: the BG
\* stop, then in phase 2 f2fs_iget and what follows it; the other phases
\* take and drop no reference
PinEntry ==
    /\ pn.pc = "entry"
    /\ IF bg_stop(pn.gc_type)
       THEN /\ pn' = [pn EXCEPT !.pc = "seg_ret", !.nfree = 0,
                                !.seen = @ \cup {"bgstop"}]
            /\ UNCHANGED <<i_count, ilist>>
       ELSE IF pn.phase # 2
       THEN /\ pn' = PinNext(pn)
            /\ UNCHANGED <<i_count, ilist>>
       ELSE \E outcome \in IgetOutcomes :
              /\ outcome = "bad" =>
                    /\ pn.owner[pn.off] \in pn.bad
                    /\ i_count[pn.owner[pn.off]] < MaxPins
              /\ outcome \in {"encrypted", "readerr", "read"} =>
                    pn.owner[pn.off] \notin pn.bad
              /\ \E r \in {phase2(ilist, i_count, pn.owner[pn.off], outcome)} :
                    /\ i_count' = r.i_count
                    /\ ilist' = r.ilist
                    /\ pn' = PinNext([pn EXCEPT
                               !.seen = @ \cup
                                  (IF outcome \in {"bad", "readerr"} THEN {outcome}
                                   ELSE IF /\ outcome \in {"encrypted", "read"}
                                           /\ find_gc_inode(ilist, pn.owner[pn.off])
                                        THEN {"dup"} ELSE {})])
    /\ UNCHANGED <<drvVars, selVars, obsVars, migVars, thrVars, bidxVars>>

\* after phase 3: 1 only if FG_GC left no valid block in the segment
PinSegEnd ==
    /\ pn.pc = "seg_end"
    /\ \E nfree \in {0} \cup {1 : x \in {t \in {pn.gc_type} : t = FG_GC}} :
          pn' = [pn EXCEPT !.pc = "seg_ret", !.nfree = nfree]
    /\ UNCHANGED <<i_count, ilist, drvVars, selVars, obsVars, migVars, thrVars, bidxVars>>

\* if (!do_garbage_collect(...) && gc_type == FG_GC) break;
PinSegRet ==
    /\ pn.pc = "seg_ret"
    /\ pn' = IF pn.nfree = 0 /\ pn.gc_type = FG_GC
             THEN [pn EXCEPT !.pc = "post"]
             ELSE [pn EXCEPT !.pc = "segment", !.i = @ + 1]
    /\ UNCHANGED <<i_count, ilist, drvVars, selVars, obsVars, migVars, thrVars, bidxVars>>

\* after the section loop: sec_freed++, and for !sync the loop back
PinPost ==
    /\ pn.pc = "post"
    /\ \E freed \in {IF pn.i = segs_per_sec /\ pn.gc_type = FG_GC
                     THEN pn.sec_freed + 1 ELSE pn.sec_freed} :
          pn' = IF ~pn.sync /\ has_not_enough_free_secs(freed)
                THEN [pn EXCEPT !.sec_freed = freed, !.pc = "gc_more"]
                ELSE [pn EXCEPT !.sec_freed = freed, !.pc = "stop",
                                !.cause = "done"]
    /\ UNCHANGED <<i_count, ilist, drvVars, selVars, obsVars, migVars, thrVars, bidxVars>>

\* stop: mutex_unlock(&sbi->gc_mutex); put_gc_inode(&gc_list); return ret;
PinStop ==
    /\ pn.pc = "stop"
    /\ gc_mutex' = mutex_unlock(gc_mutex)
    /\ \E r \in {put_gc_inode(ilist, i_count)} :
          /\ i_count' = r.i_count
          /\ ilist' = r.ilist
    /\ pn' = [pn EXCEPT !.pc = "idle", !.returned = TRUE]
    /\ UNCHANGED <<gc, held, active, cp_error, free_secs, prefree, hist,
                   selVars, obsVars, migVars, thrVars, bidxVars>>

NextPin ==
    \/ PinCall \/ PinGcMore \/ PinSegment \/ PinEntry \/ PinSegEnd
    \/ PinSegRet \/ PinPost \/ PinStop
    \/ Unmount \/ CpError \/ UseFreeSection

SpecPin == InitPin /\ [][NextPin]_vars

\* C17: inode pin balance per round.  Every reference f2fs_iget gave during
\* a call of f2fs_gc is released exactly once by the time the call returns,
\* on every exit path; gc_list holds at most one entry per ino, and it is
\* empty when f2fs_gc returns.
C17_PinBalance ==
    /\ \A ino \in Inos : i_count[ino] >= 0
    /\ \A j \in 1 .. Len(ilist), k \in 1 .. Len(ilist) :
          ilist[j] = ilist[k] => j = k
    /\ (pn.pc = "idle" /\ pn.returned) =>
          /\ ilist = <<>>
          /\ \A ino \in Inos : i_count[ino] = 0

(***************************************************************************)
(* SpecThr: the reclaimer task (gc_thread_func) from start_gc_thread to     *)
(* stop_gc_thread.  f2fs_gc is a call that takes time and returns what      *)
(* f2fs_gc_result gives; another holder of gc_mutex runs beside the task.   *)
(***************************************************************************)
\* how often start_gc_thread / stop_gc_thread are called in a behaviour
MaxStarts == 2
MaxStops == 2

\* the sleep tunables range over 0 .. MaxSleep, no_gc_sleep_time also above
MaxSleep == 3

SleepSettings ==
    [min_sleep_time : 0 .. MaxSleep - 1, max_sleep_time : 1 .. MaxSleep,
     no_gc_sleep_time : {0, MaxSleep - 1, MaxSleep + 2}]

\* the wait adjustment stays inside [min_sleep_time, max_sleep_time]
BoundSleep(g, w) ==
    IF w < g.min_sleep_time THEN g.min_sleep_time
    ELSE IF w > g.max_sleep_time THEN g.max_sleep_time ELSE w

\* increase_sleep_time(gc_th, &wait_ms): one step of min_sleep_time up
increase_sleep_time(g, w) == BoundSleep(g, w + g.min_sleep_time)

\* decrease_sleep_time(gc_th, &wait_ms): one step of min_sleep_time down
decrease_sleep_time(g, w) == BoundSleep(g, w - g.min_sleep_time)

\* variant: the task starts with a wait of zero
initial_wait_zero(g) == 0

\* wait_ms = gc_th->min_sleep_time;
initial_wait(g) == g.min_sleep_time

\* variant: the loop never looks at the stop request
loop_again_always(stop) == TRUE

\* } while (!kthread_should_stop());
loop_again(stop) == ~stop

InitThr ==
    /\ InitDrv
    /\ segs_per_sec = 1
    /\ free_secs = 0
    /\ InitMigIdle
    /\ InitPinIdle
    /\ InitThrIdle
    /\ InitBidxIdle

\* start_gc_thread: kmalloc, the tunables, sbi->gc_thread, kthread_run; a
\* failed kthread_run frees the struct and clears sbi->gc_thread
start_gc_thread ==
    /\ ctl.pc = "idle"
    /\ ctl.starts < MaxStarts
    /\ gc_thread = "NULL"
    /\ \E kmalloc_ok \in BOOLEAN, run_ok \in BOOLEAN, set \in SleepSettings,
          force \in BOOLEAN :
          IF ~kmalloc_ok
          THEN /\ ~run_ok /\ ~force /\ set = CHOOSE x \in SleepSettings : TRUE
               /\ ctl' = [ctl EXCEPT !.starts = @ + 1, !.last = "enomem"]
               /\ UNCHANGED <<gc_th, gc_thread, thr, should_stop>>
          ELSE IF ~run_ok
          THEN /\ ~force /\ set = CHOOSE x \in SleepSettings : TRUE
               /\ ctl' = [ctl EXCEPT !.starts = @ + 1, !.last = "run_err"]
               /\ gc_thread' = "NULL"
               /\ UNCHANGED <<gc_th, thr, should_stop>>
          ELSE /\ ctl' = [ctl EXCEPT !.starts = @ + 1, !.last = "started",
                                     !.force_fg = force]
               /\ gc_th' = set
               /\ gc_thread' = "gc_th"
               /\ thr' = ThrLocals("start", 0)
               /\ should_stop' = FALSE
    /\ UNCHANGED <<drvVars, selVars, obsVars, migVars, pinVars, bidxVars>>

\* stop_gc_thread: nothing when sbi->gc_thread is NULL, else kthread_stop
\* raises the stop request, wakes the task and waits for it
stop_gc_thread ==
    /\ ctl.pc = "idle"
    /\ ctl.stops < MaxStops
    /\ IF gc_thread = "NULL"
       THEN /\ ctl' = [ctl EXCEPT !.stops = @ + 1, !.last = "stop_noop"]
            /\ UNCHANGED should_stop
       ELSE /\ ctl' = [ctl EXCEPT !.pc = "kthread_stop"]
            /\ should_stop' = TRUE
    /\ UNCHANGED <<gc_th, gc_thread, thr, drvVars, selVars, obsVars, migVars,
                   pinVars, bidxVars>>

\* kthread_stop returns once the task has exited; kfree(gc_th);
\* sbi->gc_thread = NULL
StopJoin ==
    /\ ctl.pc = "kthread_stop"
    /\ thr.pc = "exited"
    /\ ctl' = [ctl EXCEPT !.pc = "idle", !.stops = @ + 1, !.last = "stopped"]
    /\ gc_thread' = "NULL"
    /\ gc_th' = NoTunables
    /\ UNCHANGED <<thr, should_stop, drvVars, selVars, obsVars, migVars, pinVars, bidxVars>>

\* the task starts running: wait_ms = gc_th->min_sleep_time
ThrBegin ==
    /\ thr.pc = "start"
    /\ thr' = [thr EXCEPT !.pc = "wait", !.wait_ms = initial_wait(gc_th)]
    /\ UNCHANGED <<gc_th, gc_thread, should_stop, ctl, drvVars, selVars,
                   obsVars, migVars, pinVars, bidxVars>>

\* if (try_to_freeze()) continue; else wait_event_interruptible_timeout(...)
\* which the timeout or the stop request ends
ThrSleep ==
    /\ thr.pc = "wait"
    /\ \E froze \in BOOLEAN :
          thr' = [thr EXCEPT !.pc = IF froze THEN "cond" ELSE "stopchk"]
    /\ UNCHANGED <<gc_th, gc_thread, should_stop, ctl, drvVars, selVars,
                   obsVars, migVars, pinVars, bidxVars>>

\* if (kthread_should_stop()) break;
ThrStopChk ==
    /\ thr.pc = "stopchk"
    /\ thr' = [thr EXCEPT !.pc = IF should_stop THEN "exited" ELSE "frozen"]
    /\ UNCHANGED <<gc_th, gc_thread, should_stop, ctl, drvVars, selVars,
                   obsVars, migVars, pinVars, bidxVars>>

\* if (sbi->sb->s_writers.frozen >= SB_FREEZE_WRITE) { increase; continue; }
ThrFrozen ==
    /\ thr.pc = "frozen"
    /\ \E frozen \in BOOLEAN :
          thr' = IF frozen
                 THEN [thr EXCEPT !.pc = "cond", !.nogc = FALSE,
                                  !.wait_ms = increase_sleep_time(gc_th, @)]
                 ELSE [thr EXCEPT !.pc = "trylock"]
    /\ UNCHANGED <<gc_th, gc_thread, should_stop, ctl, drvVars, selVars,
                   obsVars, migVars, pinVars, bidxVars>>

\* if (!mutex_trylock(&sbi->gc_mutex)) continue;
ThrTrylock ==
    /\ thr.pc = "trylock"
    /\ IF gc_mutex = "free"
       THEN /\ gc_mutex' = "gc"
            /\ thr' = [thr EXCEPT !.pc = "is_idle"]
       ELSE /\ thr' = [thr EXCEPT !.pc = "cond"]
            /\ UNCHANGED gc_mutex
    /\ UNCHANGED <<gc, held, active, cp_error, free_secs, prefree, hist,
                   gc_th, gc_thread, should_stop, ctl, selVars, obsVars,
                   migVars, pinVars, bidxVars>>

\* if (!is_idle(sbi)) { increase; mutex_unlock; continue; } then the
\* has_enough_invalid_blocks adjustment and the call of f2fs_gc
ThrIdle ==
    /\ thr.pc = "is_idle"
    /\ \E idle \in BOOLEAN, enough \in BOOLEAN :
          IF ~idle
          THEN /\ ~enough
               /\ thr' = [thr EXCEPT !.pc = "cond", !.nogc = FALSE,
                                     !.wait_ms = increase_sleep_time(gc_th, @)]
               /\ gc_mutex' = mutex_unlock(gc_mutex)
          ELSE /\ thr' = [thr EXCEPT
                            !.pc = "f2fs_gc", !.nogc = FALSE,
                            !.wait_ms = IF enough
                                        THEN decrease_sleep_time(gc_th, @)
                                        ELSE increase_sleep_time(gc_th, @),
                            !.late_calls = IF should_stop THEN @ + 1 ELSE @]
               /\ UNCHANGED gc_mutex
    /\ UNCHANGED <<gc, held, active, cp_error, free_secs, prefree, hist,
                   gc_th, gc_thread, should_stop, ctl, selVars, obsVars,
                   migVars, pinVars, bidxVars>>

\* f2fs_gc returns (it has released gc_mutex): ret is 0 once a victim was
\* selected and -EINVAL before, a sync call returns by sec_freed; a nonzero
\* value replaces the wait by no_gc_sleep_time
ThrGcReturn ==
    /\ thr.pc = "f2fs_gc"
    /\ \E selected \in BOOLEAN, sec_freed \in 0 .. 1 :
          /\ sec_freed > 0 => selected
          /\ \E r \in {f2fs_gc_result(ctl.force_fg, sec_freed,
                                      IF selected THEN 0 ELSE 0 - EINVAL)} :
                thr' = [thr EXCEPT
                          !.pc = "cond", !.ret = r,
                          !.nogc = no_gc_wait(r),
                          !.wait_ms = IF no_gc_wait(r)
                                      THEN gc_th.no_gc_sleep_time ELSE @]
    /\ gc_mutex' = mutex_unlock(gc_mutex)
    /\ UNCHANGED <<gc, held, active, cp_error, free_secs, prefree, hist,
                   gc_th, gc_thread, should_stop, ctl, selVars, obsVars,
                   migVars, pinVars, bidxVars>>

\* } while (!kthread_should_stop()); return 0;
ThrCond ==
    /\ thr.pc = "cond"
    /\ thr' = IF loop_again(should_stop)
              THEN [thr EXCEPT !.pc = "wait",
                               !.late_iters = IF should_stop THEN @ + 1 ELSE @]
              ELSE [thr EXCEPT !.pc = "exited"]
    /\ UNCHANGED <<gc_th, gc_thread, should_stop, ctl, drvVars, selVars,
                   obsVars, migVars, pinVars, bidxVars>>

ThrSteps ==
    \/ ThrBegin \/ ThrSleep \/ ThrStopChk \/ ThrFrozen \/ ThrTrylock
    \/ ThrIdle \/ ThrGcReturn \/ ThrCond

NextThr ==
    \/ start_gc_thread \/ stop_gc_thread \/ StopJoin
    \/ ThrSteps
    \/ OtherLock \/ OtherUnlock

SpecThr == InitThr /\ [][NextThr]_vars

\* the task is scheduled, f2fs_gc returns, and kthread_stop returns once the
\* task has exited
SpecThrFair ==
    /\ InitThr
    /\ [][NextThr]_vars
    /\ WF_vars(ThrSteps)
    /\ WF_vars(StopJoin)

\* the task exists and has set its wait
ThrAlive == thr.pc \notin {"none", "start", "exited"}

InSleepRange(g, w) == g.min_sleep_time <= w /\ w <= g.max_sleep_time

\* C18 as stated, read with min_sleep_time <= max_sleep_time: in every
\* iteration of the reclaimer loop the wait lies in
\* [min_sleep_time, max_sleep_time].
C18_Original ==
    (ThrAlive /\ gc_th.min_sleep_time <= gc_th.max_sleep_time) =>
        InSleepRange(gc_th, thr.wait_ms)

\* C18: with min_sleep_time <= max_sleep_time, in every iteration of the
\* reclaimer loop the wait lies in [min_sleep_time, max_sleep_time] or is
\* no_gc_sleep_time, for every setting of the tunables and every sequence of
\* frozen / not-idle / enough-invalid-blocks / f2fs_gc outcomes; it is taken
\* from no_gc_sleep_time only by a tick whose f2fs_gc returned nonzero.
C18_WaitBounds ==
    (ThrAlive /\ gc_th.min_sleep_time <= gc_th.max_sleep_time) =>
        /\ \/ InSleepRange(gc_th, thr.wait_ms)
           \/ thr.wait_ms = gc_th.no_gc_sleep_time
        /\ thr.nogc => (thr.ret # 0 /\ thr.wait_ms = gc_th.no_gc_sleep_time)

\* a tick whose f2fs_gc returned nonzero left a wait above max_sleep_time,
\* after a tick that had moved the wait off min_sleep_time
C18_Witness ==
    /\ ThrAlive
    /\ gc_th.min_sleep_time < gc_th.max_sleep_time
    /\ gc_th.min_sleep_time > 0
    /\ thr.nogc
    /\ thr.wait_ms = gc_th.no_gc_sleep_time
    /\ thr.wait_ms > gc_th.max_sleep_time
    /\ thr.pc = "wait"

StopSafe ==
    /\ thr.late_iters = 0
    /\ thr.late_calls <= 1
    /\ (ctl.pc = "idle" /\ ctl.last \in {"stopped", "stop_noop", "enomem",
                                         "run_err"}) => gc_thread = "NULL"
    /\ ctl.last = "stopped" => thr.pc = "exited"

\* what every step keeps to
StopStep ==
    /\ thr.pc = "f2fs_gc" => thr'.pc \in {"f2fs_gc", "cond"}
    /\ (should_stop /\ thr.pc \in {"cond", "stopchk"}) =>
          thr'.pc \in {thr.pc, "exited"}
    /\ (stop_gc_thread /\ gc_thread = "NULL") =>
          UNCHANGED <<gc_th, gc_thread, thr, should_stop>>

\* C20: once a stop is requested the reclaimer task finishes at most the
\* iteration it is in (it begins no iteration, and at most the one f2fs_gc
\* call of the running iteration), never leaves an f2fs_gc call before it
\* returns, and exits its loop at the next test of kthread_should_stop; it
\* eventually terminates, f2fs_gc returning, and stop_gc_thread then leaves
\* sbi->gc_thread NULL; a stop_gc_thread that finds sbi->gc_thread NULL (a
\* second stop, or a stop after a failed start) changes nothing.
C20_StopRequest ==
    /\ []StopSafe
    /\ [][StopStep]_vars
    /\ (should_stop ~> thr.pc = "exited")
    /\ (ctl.pc = "kthread_stop" ~> (gc_thread = "NULL" /\ ctl.last = "stopped"))

\* the stop came after the task's own stop test: the task ran the f2fs_gc
\* call of its iteration to the end and exited, stop_gc_thread cleared
\* sbi->gc_thread, and a second stop_gc_thread found nothing to do
C20_Witness ==
    /\ ctl.last = "stop_noop"
    /\ ctl.stops = 2
    /\ ctl.starts = 1
    /\ thr.pc = "exited"
    /\ thr.late_calls = 1
    /\ gc_thread = "NULL"

(***************************************************************************)
(* SpecElig: a sequence of selector calls, each with its own gc_type and   *)
(* alloc_mode (f2fs_gc's LFS calls, the allocator's SSR calls with         *)
(* BG_GC), f2fs_gc's reset of cur_victim_sec between them and the          *)
(* allocator moving its write cursor.                                      *)
(***************************************************************************)
MaxEligCalls == 3

InitElig ==
    /\ InitSelCommon
    /\ InitDrvIdle
    /\ InitMigIdle
    /\ InitPinIdle
    /\ InitThrIdle
    /\ InitBidxIdle
    /\ mtime = MtimeProfile(segs_per_sec)
    /\ valid_blocks = SparseProfile(segs_per_sec)
    /\ ckpt_valid_blocks = valid_blocks
    /\ \E D \in SUBSET SegsFor(segs_per_sec) :
          /\ D # {}
          /\ dirty_segmap = [c \in {DIRTY, COLD_DATA} |-> D]
    /\ victim_secmap = {}
    /\ last_victim = [m \in {GC_CB, GC_GREEDY} |-> 0]
    /\ cursec \in {{}, {1}}
    /\ max_victim_search \in {1, MaxSearch}
    /\ gc_idle = 0
    /\ callcfg = [gc_type |-> BG_GC, type |-> COLD_DATA, alloc_mode |-> LFS]

\* get_victim(sbi, &segno, gc_type, type, alloc_mode)
EligCall ==
    /\ calls < MaxEligCalls
    /\ \E gc_type \in {BG_GC, FG_GC}, alloc_mode \in {LFS, SSR} :
          /\ alloc_mode = SSR => gc_type = BG_GC
          /\ \E out \in {get_victim_by_default(NULL_SEGNO, gc_type,
                                                COLD_DATA, alloc_mode)} :
                ApplyVictim(out) /\ visited' = SeqRange(out.examined)
    /\ calls' = calls + 1
    /\ UNCHANGED <<callcfg, drvVars, migVars, pinVars, thrVars, bidxVars>>

\* f2fs_gc: if (gc_type == FG_GC) sbi->cur_victim_sec = NULL_SEGNO;
EligClear ==
    /\ cur_victim_sec # NULL_SEGNO
    /\ cur_victim_sec' = NULL_SEGNO
    /\ UNCHANGED <<segs_per_sec, valid_blocks, ckpt_valid_blocks, mtime,
                   min_mtime, max_mtime, dirty_segmap, victim_secmap,
                   last_victim, cursec, max_victim_search, gc_idle, obsVars,
                   drvVars, migVars, pinVars, thrVars, bidxVars>>

\* the allocator moves its write cursor onto another section
EligCursor == \E secno \in Secs : RsvCursor(secno)

NextElig == EligCall \/ EligClear \/ EligCursor

SpecElig == InitElig /\ [][NextElig]_vars

\* the step is a selector call that returned a victim
Returned == calls' = calls + 1 /\ sel'.ret = 1

\* no bit of the section the last call returned was cleared since: an LFS
\* BG victim still has its bit; an SSR victim never had one
NoClearSince ==
    sel.alloc_mode = LFS => GET_SECNO(sel.result) \in victim_secmap

Last(q) == q[Len(q)]

\* the dirty segments the policy of the call counts: nr_dirty[class]
NrDirty == Cardinality(SelPolicy.dirty_segmap)

\* C22 as stated: the number of candidates whose cost is evaluated in one
\* selector call never exceeds max_search, and when the scan stops at the
\* cap last_victim[mode] holds the segment at which it stopped.
C22_Original ==
    (calls = 1 /\ Scanned(sel)) =>
        /\ Len(sel.examined) <= sel.max_search
        /\ sel.capped => last_victim[sel.gc_mode] = Last(sel.examined)

\* C22: search cap.  max_search = min(nr_dirty[class], max_victim_search).
\* In one selector call the candidates counted against the cap, those whose
\* cost is not the max cost, number at most max_search + 1: the scan stops
\* at the candidate counted after max_search others, having evaluated its
\* cost.  Candidates whose cost equals the max cost are evaluated and not
\* counted.  When the scan stops at the cap, last_victim[mode] holds the
\* segment at which it stopped.
C22_SearchCap ==
    (calls = 1 /\ Scanned(sel)) =>
        /\ sel.max_search = Min({NrDirty, max_victim_search})
        /\ sel.nsearched <= sel.max_search + 1
        /\ sel.nsearched <= Len(sel.examined)
        /\ sel.capped <=> sel.nsearched = sel.max_search + 1
        /\ sel.capped => last_victim[sel.gc_mode] = Last(sel.examined)

\* a scan stopped at the cap after max_search + 1 counted candidates and one
\* more that cost the max cost
C22_Witness ==
    /\ calls = 1 /\ Scanned(sel)
    /\ sel.capped
    /\ sel.nsearched = sel.max_search + 1
    /\ Len(sel.examined) > sel.nsearched

\* the step leaves the section loop of f2fs_gc
LeavesSectionLoop == gc.pc = "post" /\ gc'.pc # "post"

\* the segments of the victim section before its i-th
Before(i) == {gc.segno + k : k \in 0 .. (i - 1)}

\* C23: section loop of f2fs_gc.  In FG mode the segments of the victim
\* section are collected in increasing order and the loop stops at the first
\* segment whose do_garbage_collect returns 0 (the segment keeps a valid
\* block), so later segments are not touched; sec_freed is incremented exactly
\* when the mode is FG and all segs_per_sec segments returned 1, each with a
\* valid-block count of 0 at that time; in BG mode all segments are visited
\* and sec_freed is never incremented.
C23_SectionLoop ==
    [][LeavesSectionLoop =>
        /\ gc.gc_type = FG_GC =>
              /\ \A seg \in Before(gc.i) : valid_blocks[seg] = 0
              /\ gc.i < segs_per_sec =>
                    /\ gc.nfree = 0
                    /\ valid_blocks[gc.segno + gc.i] > 0
                    /\ hist.mig_segno = gc.segno + gc.i
              /\ gc'.sec_freed = gc.sec_freed + 1 <=> gc.i = segs_per_sec
        /\ gc.gc_type = BG_GC =>
              /\ gc.i = segs_per_sec
              /\ hist.mig_segno = gc.segno + segs_per_sec - 1
              /\ gc'.sec_freed = gc.sec_freed]_vars

\* an FG round with two segments per section freed the first segment and
\* stopped at the second, which kept its valid block
C23_Witness ==
    /\ gc.pc = "post" /\ gc.gc_type = FG_GC
    /\ segs_per_sec = 2 /\ gc.i = 1 /\ gc.nfree = 0
    /\ valid_blocks[gc.segno] = 0
    /\ valid_blocks[gc.segno + 1] > 0

\* the round is gc_data_segment on the blocks of an inode that is not
\* encrypted
BgDataRound ==
    mcfg.seg_type = DATA /\ mcfg.gc_type = BG_GC /\ ~mcfg.encrypted

\* C24: per-block move strategy of BG data migration (gc_data_segment, phase
\* 3, inode not encrypted).  A block classified in phase 2 as cached and
\* clean (2) or as not cached (3) is moved by the remap path
\* change_data_page, a block classified as cached and dirty (1) by the full
\* page rewrite move_data_page.
C24_MoveStrategy ==
    BgDataRound =>
        \A off \in Offs :
            mg.taken[off] # "none" =>
                /\ mg.array[off] \in {2, 3} =>
                      mg.taken[off] = "change_data_page"
                /\ mg.array[off] = 1 => mg.taken[off] = "move_data_page"

(***************************************************************************)
(* start_bidx_of_node(node_ofs, fi).  The node tree of an inode: offset 0  *)
(* is the inode, 1 and 2 are direct nodes, 3 and NIDS_PER_BLOCK + 4 are    *)
(* indirect nodes followed by their NIDS_PER_BLOCK direct nodes, then the  *)
(* double-indirect node, whose NIDS_PER_BLOCK indirect nodes are each      *)
(* followed by their direct nodes.  The geometry is scaled down.           *)
(***************************************************************************)
NidsPerBlock == 3
AddrsPerBlock == 4

\* ADDRS_PER_INODE(fi): with and without inline xattrs
AddrsPerInodeChoices == {2, 3, 5}

\* unsigned int arithmetic; the word is scaled down with the geometry and
\* stays far wider than any block index of the tree
UIntBits == 16
U32(x) == x % (2 ^ UIntBits)

\* variant: the indirect nodes below node_ofs are not taken off
start_bidx_of_node_flat(node_ofs, addrs) ==
    LET indirect_blks == 2 * NidsPerBlock + 4
        bidx == IF node_ofs <= 2 THEN U32(node_ofs - 1)
                ELSE IF node_ofs <= indirect_blks THEN U32(node_ofs - 2)
                ELSE U32(node_ofs - 5)
    IN IF node_ofs = 0 THEN 0 ELSE U32(bidx * AddrsPerBlock + addrs)

start_bidx_of_node(node_ofs, addrs) ==
    LET indirect_blks == 2 * NidsPerBlock + 4
        bidx == IF node_ofs <= 2 THEN U32(node_ofs - 1)
                ELSE IF node_ofs <= indirect_blks
                THEN LET dec == U32(node_ofs - 4) \div (NidsPerBlock + 1)
                     IN U32(node_ofs - 2 - dec)
                ELSE LET dec == U32(node_ofs - indirect_blks - 3)
                                    \div (NidsPerBlock + 1)
                     IN U32(node_ofs - 5 - dec)
    IN IF node_ofs = 0 THEN 0 ELSE U32(bidx * AddrsPerBlock + addrs)

\* the offsets of the direct nodes of the tree
DirectNodes ==
    {1, 2}
    \cup (4 .. (NidsPerBlock + 3))
    \cup ((NidsPerBlock + 5) .. (2 * NidsPerBlock + 4))
    \cup {2 * NidsPerBlock + 6 + j * (NidsPerBlock + 1) + i :
             j \in 0 .. (NidsPerBlock - 1), i \in 1 .. NidsPerBlock}

\* the callers pass the offset of the node that owns a data block: the inode
\* or a direct node
InitBidx ==
    /\ InitDrv
    /\ segs_per_sec = 1
    /\ free_secs = 0
    /\ InitMigIdle
    /\ InitPinIdle
    /\ InitThrIdle
    /\ bx \in [pc : {"call"}, node_ofs : {0} \cup DirectNodes,
               addrs : AddrsPerInodeChoices, bidx : {0}]

StartBidx ==
    /\ bx.pc = "call"
    /\ bx' = [bx EXCEPT !.bidx = start_bidx_of_node(bx.node_ofs, bx.addrs),
                        !.pc = "ret"]
    /\ UNCHANGED <<selVars, obsVars, drvVars, migVars, pinVars, thrVars>>

NextBidx == StartBidx

SpecBidx == InitBidx /\ [][NextBidx]_vars

\* the number of direct nodes with a smaller offset
DirectsBelow(node_ofs) == Cardinality({d \in DirectNodes : d < node_ofs})

\* C25: start_bidx_of_node.  For node_ofs = 0 the result is 0; for every
\* node_ofs of a direct node the result is A + ADDRS_PER_BLOCK * k, k the
\* number of direct nodes with a smaller node_ofs, so consecutive direct
\* nodes start exactly ADDRS_PER_BLOCK block indices apart, across the two
\* direct nodes, the single-indirect range and the double-indirect range.
C25_StartBidx ==
    bx.pc = "ret" =>
        /\ bx.node_ofs = 0 => bx.bidx = 0
        /\ bx.node_ofs \in DirectNodes =>
              /\ bx.bidx = bx.addrs + AddrsPerBlock * DirectsBelow(bx.node_ofs)
              /\ \A d \in DirectNodes :
                    DirectsBelow(d) + 1 = DirectsBelow(bx.node_ofs) =>
                        bx.bidx = start_bidx_of_node(d, bx.addrs)
                                      + AddrsPerBlock

\* the call for the first direct node of the second indirect node below the
\* double-indirect node returned
C25_Witness ==
    /\ bx.pc = "ret"
    /\ bx.node_ofs = 3 * NidsPerBlock + 8
    /\ bx.bidx = bx.addrs + AddrsPerBlock * (3 * NidsPerBlock + 2)

(***************************************************************************)
(* SpecRound: the reclaimer and the driver with one segment per section,   *)
(* beside unmount, the checkpoint-error latch and a writer using up free   *)
(* sections.  The reclaimer task is scheduled and every step of f2fs_gc    *)
(* (a selector call, the migration of a segment) terminates.               *)
(***************************************************************************)
InitRound == InitGc /\ segs_per_sec = 1

NextRound == GcSteps \/ Unmount \/ CpError \/ UseFreeSection

SpecRound == InitRound /\ [][NextRound]_vars /\ WF_vars(GcSteps)

\* a non-sync f2fs_gc is back at gc_more in BG mode after a section loop
BackAtGcMore ==
    gc.pc = "gc_more" /\ ~gc.sync /\ gc.gc_type = BG_GC /\ hist.selected

\* a BG migrator found free sections short at the head of its loop: it
\* returns 0 without looking at the entry
BgStopStep ==
    (gc.pc = "mig" /\ gc'.pc # "mig" /\ gc.gc_type = BG_GC
        /\ has_not_enough_free_secs(0))
        => (gc'.pc = "dgc_ret" /\ gc'.nfree = 0 /\ gc'.off = gc.off
                /\ held' = held)

\* a non-sync f2fs_gc that finds free sections short after the section loop
\* goes back to gc_more
ReentersGcMore ==
    (gc.pc = "post" /\ gc'.pc # "post" /\ ~gc.sync
        /\ has_not_enough_free_secs(gc'.sec_freed))
        => gc'.pc = "gc_more"

\* C26 as stated: a BG migrator returns 0 at once when free sections are
\* short, and a non-sync f2fs_gc that sees the condition after the section
\* loop re-enters gc_more and continues in FG mode.
C26_Original ==
    /\ [][BgStopStep /\ ReentersGcMore]_vars
    /\ BackAtGcMore ~> (InCall /\ gc.gc_type = FG_GC)

\* C26: BG yields to writers.  While migrating a segment in BG mode the
\* migrator checks has_not_enough_free_secs before each summary entry and
\* returns 0 at once when it holds, migrating no further block of that
\* segment; a non-sync f2fs_gc that sees the condition after the section
\* loop re-enters gc_more, where it switches to FG mode and selects again,
\* unless the filesystem is no longer active or a checkpoint error is
\* latched: then the round stops at gc_more.
C26_BgYields ==
    /\ [][BgStopStep /\ ReentersGcMore]_vars
    /\ BackAtGcMore ~>
          \/ (InCall /\ gc.gc_type = FG_GC /\ gc.pc = "gv_lock")
          \/ (gc.pc = "stop" /\ hist.cause \in {"inactive", "cp_error"})

\* a BG section loop ended with free sections short, and the round is now in
\* FG mode at its second selection
C26_Witness ==
    /\ InCall /\ ~gc.sync /\ gc.gc_type = FG_GC
    /\ hist.selected /\ hist.esc
    /\ gc.pc = "gv_lock"
    /\ active /\ ~cp_error

\* the positions of f2fs_gc from the return of a selection that found a
\* victim to the end of that victim's section loop
VictimHeld ==
    gc.pc \in {"gv_unlock", "esc_cp", "need_victim", "section", "dgc_sum",
               "dgc_unlock", "mig", "mig_cvm", "mig_done", "dgc_ret", "post"}

\* C27: cur_victim_sec does not outlive a round.  It is NULL_SEGNO when
\* f2fs_gc is entered and whenever f2fs_gc returns, on every path (sync or
\* not, escalated or not, section reclaimed or aborted at a failing segment,
\* no victim, unmount, checkpoint error); it is not NULL only between an FG
\* victim selection and the end of that victim's section loop, where it is
\* the section of the selected segment.
C27_VictimSecCleared ==
    /\ (~InCall \/ gc.pc \in {"gc_more", "stop"}) =>
          cur_victim_sec = NULL_SEGNO
    /\ cur_victim_sec # NULL_SEGNO =>
          /\ VictimHeld
          /\ gc.gc_type = FG_GC
          /\ gc.segno # NULL_SEGNO
          /\ cur_victim_sec = GET_SECNO(gc.segno)

\* a non-sync round that escalated to FG and stopped at a segment it could
\* not free has returned
C27_Witness ==
    /\ hist.returned /\ ~hist.rsync /\ hist.rtype = FG_GC
    /\ hist.fg_mig /\ hist.rfreed = 0
    /\ cur_victim_sec = NULL_SEGNO

\* the call was a Cost-Benefit scan (LFS, no fast path, a search budget)
CbScanned(out) ==
    Scanned(out) /\ out.alloc_mode = LFS /\ out.gc_mode = GC_CB

\* the sections whose cost the call evaluated
ExaminedSecs(out) == {GET_SECNO(x) : x \in SeqRange(out.examined)}

\* C28: Cost-Benefit blind spot.  A Cost-Benefit scan never returns a
\* section whose computed age is 0 or whose utilization is 100%, because its
\* cost equals the cap UINT_MAX; hence a section whose mean mtime equals
\* max_mtime is never chosen however few valid blocks it has, and when
\* max_mtime equals min_mtime after the update in get_cb_cost the scan
\* returns NONE for every dirty set.
C28_CbBlindSpot ==
    (calls = 1 /\ CbScanned(sel)) =>
        /\ sel.ret = 1 =>
              LET secno == GET_SECNO(sel.result)
              IN /\ sel.min_cost < UINT_MAX
                 /\ CbCost(secno) = sel.min_cost
                 /\ SecUtil(secno) # 100
                 /\ SecMtime(secno) # max_mtime
        /\ \A secno \in ExaminedSecs(sel) :
              (SecUtil(secno) = 100 \/ SecMtime(secno) = max_mtime)
                  => CbCost(secno) = UINT_MAX
        /\ max_mtime = min_mtime => sel.ret = 0

\* a Cost-Benefit scan passed over a section as young as max_mtime and
\* returned one that holds more valid blocks
C28_Witness ==
    /\ calls = 1 /\ CbScanned(sel) /\ sel.ret = 1
    /\ \E secno \in ExaminedSecs(sel) :
          /\ SecMtime(secno) = max_mtime
          /\ SecValid(secno) < SecValid(GET_SECNO(sel.result))

\* C29: termination of a non-sync round.  Every call f2fs_gc(sbi, false)
\* eventually returns and releases gc_mutex, given that each selector call
\* and each per-segment migration terminates: the gc_more loop cannot repeat
\* forever, also when free sections stay short and the selected victim
\* section cannot be fully freed.
C29_Termination ==
    (InCall /\ ~gc.sync) ~> (~InCall /\ gc_mutex = "free")
====
